---- MODULE Spec2Model ----
(***************************************************************************)
(* Verification model of the Deckster director (v3.3):                     *)
(*   - WorkflowOrchestrator      src/src/workflows/state_machine.py        *)
(*   - IntentRouter.classify     src/src/agents/intent_router.py           *)
(*   - DirectorAgent.process     src/src/agents/director.py                *)
(* The specifications share the variables below:                           *)
(*   Spec          one invocation of DirectorAgent.process, split at its   *)
(*                 await points                                            *)
(*   SpecWorkflow  the transition table queried and applied by the caller  *)
(*   SpecClassify  one invocation of IntentRouter.classify                 *)
(*   SpecTruncate  ContentTransformer.truncate applied to bounded texts    *)
(*   SpecTransform ContentTransformer.transform_slide applied to one slide *)
(* Floats are integers in hundredths (confidence 1.0 is 100).              *)
(***************************************************************************)
EXTENDS Integers, Sequences, FiniteSets, TLC

VARIABLES
    \* ---- DirectorAgent configuration (director.py:93-123)
    deck_builder_enabled,   \* self.deck_builder_enabled
    has_schema_manager,     \* whether self.layout_schema_manager was set
    text_service_enabled,   \* self.text_service_enabled
    \* ---- StateContext handed to process
    current_state,          \* state_context.current_state
    session_strawman,       \* state_context.session_data.get("presentation_strawman")
    \* ---- locals of process
    pc,                     \* position inside process
    strawman,               \* local strawman (sequence of slides)
    main_title,             \* strawman.main_title
    idx,                    \* loop index, 1-based
    enriched_slides,        \* list built by the CONTENT_GENERATION loop
    successful_slides,
    failed_slides,
    response,               \* value returned by process
    raised,                 \* exception that left process
    \* ---- observation of the collaborators
    model_calls,            \* agent runs issued, in order
    model_error,            \* exception thrown by the stage's own agent run
    layout_errors,          \* (slide_id, exception) of every failed layout-selection call
    selections,             \* results of _select_layout_by_use_case, in order
    text_calls,             \* requests sent to text_client.generate, in order
    text_in_flight,         \* text_client.generate calls not yet returned
    text_failures,          \* indexes whose _generate_slide_text raised
    render_calls,           \* payloads sent to create_presentation, in order
    render_outcomes,        \* outcome of every rendering attempt, in order
    \* ---- WorkflowOrchestrator as used by the caller
    wf_state,               \* active stage of the conversation
    wf_query,               \* last validate_transition / get_next_states call
    wf_visited,             \* history: the stages that have been active
    \* ---- IntentRouter.classify
    cl_pc,
    cl_context,
    cl_message,
    cl_prompt,
    cl_failure,
    cl_result,
    cl_raised,
    \* ---- ContentTransformer.truncate
    tc_pc,
    tc_text,                \* argument text, a sequence of characters
    tc_max_chars,
    tc_add_ellipsis,
    tc_result,              \* truncate(text, max_chars, add_ellipsis)
    tc_again,               \* truncate(result, max_chars, add_ellipsis)
    \* ---- ContentTransformer.transform_slide
    tr_pc,
    tr_layout,              \* argument layout_id
    tr_slide,               \* argument slide
    tr_enriched,            \* argument enriched_slide
    tr_output,              \* {"layout": ..., "content": ...}
    \* ---- the request to the Text Service for one slide
    rq_pc,
    rq_schema_request,      \* schema_request after line 701
    rq_v1_request,          \* v1_request (line 710)
    rq_service_request      \* the JSON body posted by TextServiceClient

procVars == <<deck_builder_enabled, has_schema_manager, text_service_enabled,
              current_state, session_strawman, pc, strawman, main_title, idx,
              enriched_slides, successful_slides, failed_slides, response,
              raised, model_calls, model_error, layout_errors, selections, text_calls,
              text_in_flight, text_failures, render_calls, render_outcomes>>
wfVars == <<wf_state, wf_query, wf_visited>>
clVars == <<cl_pc, cl_context, cl_message, cl_prompt, cl_failure, cl_result,
            cl_raised>>
tcVars == <<tc_pc, tc_text, tc_max_chars, tc_add_ellipsis, tc_result, tc_again>>
trVars == <<tr_pc, tr_layout, tr_slide, tr_enriched, tr_output>>
rqVars == <<rq_pc, rq_schema_request, rq_v1_request, rq_service_request>>
pureVars == <<tcVars, trVars, rqVars>>
vars == <<procVars, wfVars, clVars, pureVars>>

\* Largest number of slides in a strawman.
MaxSlides == 3

\* Longest text handed to truncate, for the texts drawn exhaustively.
MaxTextLen == 8

\* Largest max_chars handed to truncate.
LongMaxChars == 20

Range(s) == {s[i] : i \in 1..Len(s)}

(***************************************************************************)
(* WorkflowOrchestrator                                                    *)
(***************************************************************************)
STATES == <<"PROVIDE_GREETING", "ASK_CLARIFYING_QUESTIONS",
            "CREATE_CONFIRMATION_PLAN", "GENERATE_STRAWMAN",
            "REFINE_STRAWMAN", "CONTENT_GENERATION">>

Stages == Range(STATES)

\* A plausible slip: a finished deck can be sent back to refinement.
TRANSITIONS_contentRefinable ==
    [s \in Stages |->
        CASE s = "PROVIDE_GREETING" -> <<"ASK_CLARIFYING_QUESTIONS">>
          [] s = "ASK_CLARIFYING_QUESTIONS" -> <<"CREATE_CONFIRMATION_PLAN">>
          [] s = "CREATE_CONFIRMATION_PLAN" ->
                <<"GENERATE_STRAWMAN", "ASK_CLARIFYING_QUESTIONS",
                  "CREATE_CONFIRMATION_PLAN">>
          [] s = "GENERATE_STRAWMAN" -> <<"REFINE_STRAWMAN", "CONTENT_GENERATION">>
          [] s = "REFINE_STRAWMAN" -> <<"REFINE_STRAWMAN", "CONTENT_GENERATION">>
          [] s = "CONTENT_GENERATION" -> <<"REFINE_STRAWMAN">>]

\* A plausible slip: the plan stage cannot be repeated after a rejection.
TRANSITIONS_noPlanLoop ==
    [s \in Stages |->
        CASE s = "PROVIDE_GREETING" -> <<"ASK_CLARIFYING_QUESTIONS">>
          [] s = "ASK_CLARIFYING_QUESTIONS" -> <<"CREATE_CONFIRMATION_PLAN">>
          [] s = "CREATE_CONFIRMATION_PLAN" ->
                <<"GENERATE_STRAWMAN", "ASK_CLARIFYING_QUESTIONS">>
          [] s = "GENERATE_STRAWMAN" -> <<"REFINE_STRAWMAN", "CONTENT_GENERATION">>
          [] s = "REFINE_STRAWMAN" -> <<"REFINE_STRAWMAN", "CONTENT_GENERATION">>
          [] s = "CONTENT_GENERATION" -> <<>>]

\* A plausible slip: the questions stage can skip the confirmation plan.
TRANSITIONS_skipPlan ==
    [s \in Stages |->
        CASE s = "PROVIDE_GREETING" -> <<"ASK_CLARIFYING_QUESTIONS">>
          [] s = "ASK_CLARIFYING_QUESTIONS" ->
                <<"CREATE_CONFIRMATION_PLAN", "GENERATE_STRAWMAN">>
          [] s = "CREATE_CONFIRMATION_PLAN" ->
                <<"GENERATE_STRAWMAN", "ASK_CLARIFYING_QUESTIONS",
                  "CREATE_CONFIRMATION_PLAN">>
          [] s = "GENERATE_STRAWMAN" -> <<"REFINE_STRAWMAN", "CONTENT_GENERATION">>
          [] s = "REFINE_STRAWMAN" -> <<"REFINE_STRAWMAN", "CONTENT_GENERATION">>
          [] s = "CONTENT_GENERATION" -> <<>>]

TRANSITIONS ==
    [s \in Stages |->
        CASE s = "PROVIDE_GREETING" -> <<"ASK_CLARIFYING_QUESTIONS">>
          [] s = "ASK_CLARIFYING_QUESTIONS" -> <<"CREATE_CONFIRMATION_PLAN">>
          [] s = "CREATE_CONFIRMATION_PLAN" ->
                <<"GENERATE_STRAWMAN", "ASK_CLARIFYING_QUESTIONS",
                  "CREATE_CONFIRMATION_PLAN">>
          [] s = "GENERATE_STRAWMAN" -> <<"REFINE_STRAWMAN", "CONTENT_GENERATION">>
          [] s = "REFINE_STRAWMAN" -> <<"REFINE_STRAWMAN", "CONTENT_GENERATION">>
          [] s = "CONTENT_GENERATION" -> <<>>]

validate_state(state) == state \in Range(STATES)

\* A plausible slip: any known target stage is accepted.
validate_transition_anyTarget(from_state, to_state) ==
    IF from_state \notin DOMAIN TRANSITIONS
    THEN FALSE
    ELSE to_state \in Range(STATES)

validate_transition(from_state, to_state) ==
    IF from_state \notin DOMAIN TRANSITIONS
    THEN FALSE
    ELSE to_state \in Range(TRANSITIONS[from_state])

get_next_states(current) ==
    IF current \in DOMAIN TRANSITIONS THEN TRANSITIONS[current] ELSE <<>>

\* Stage names a caller can pass: the six stages, the unused placeholder of
\* StateContext, and a name that is no stage at all.
QueryStates == Stages \cup {"LAYOUT_GENERATION", "NOT_A_STATE"}

NoQuery == [asked |-> FALSE, from |-> "PROVIDE_GREETING", to |-> "PROVIDE_GREETING",
            valid |-> FALSE, next |-> <<>>, intent |-> "none"]

\* The caller asks the orchestrator about an arbitrary pair of stage names.
ValidateQuery(s, t) ==
    /\ wf_query' = [asked |-> TRUE, from |-> s, to |-> t,
                    valid |-> validate_transition(s, t),
                    next |-> get_next_states(s), intent |-> "none"]
    /\ UNCHANGED <<wf_state, wf_visited, procVars, clVars, pureVars>>

\* The caller attempts a transition of the active stage and applies it only
\* when validate_transition accepts it.
ApplyTransition(t) ==
    /\ wf_query' = [asked |-> TRUE, from |-> wf_state, to |-> t,
                    valid |-> validate_transition(wf_state, t),
                    next |-> get_next_states(wf_state), intent |-> "none"]
    /\ wf_state' = IF validate_transition(wf_state, t) THEN t ELSE wf_state
    /\ wf_visited' = wf_visited \cup {wf_state'}
    /\ UNCHANGED <<procVars, clVars, pureVars>>

\* The stages at which the rubric of the router prompt says an intent
\* applies (intent_router.py lines 74-110); Change_Parameter has no rule.
rubric_stages(intent) ==
    CASE intent = "Submit_Initial_Topic" -> {"PROVIDE_GREETING"}
      [] intent = "Submit_Clarification_Answers" -> {"ASK_CLARIFYING_QUESTIONS"}
      [] intent \in {"Accept_Plan", "Reject_Plan"} -> {"CREATE_CONFIRMATION_PLAN"}
      [] intent \in {"Accept_Strawman", "Submit_Refinement_Request"} ->
            {"GENERATE_STRAWMAN", "REFINE_STRAWMAN"}
      [] intent \in {"Change_Topic", "Ask_Help_Or_Question"} -> Stages
      [] OTHER -> {}

NoStateChange == "NO_STATE_CHANGE"

\* The stage an intent implies (the directions noted on UserIntent,
\* models/agents.py lines 11-19); Accept_Strawman leads to Stage 6 since v3.1.
implied_state(intent) ==
    CASE intent = "Submit_Initial_Topic" -> "ASK_CLARIFYING_QUESTIONS"
      [] intent = "Submit_Clarification_Answers" -> "CREATE_CONFIRMATION_PLAN"
      [] intent = "Accept_Plan" -> "GENERATE_STRAWMAN"
      [] intent = "Reject_Plan" -> "CREATE_CONFIRMATION_PLAN"
      [] intent = "Accept_Strawman" -> "CONTENT_GENERATION"
      [] intent = "Submit_Refinement_Request" -> "REFINE_STRAWMAN"
      [] intent = "Change_Topic" -> "ASK_CLARIFYING_QUESTIONS"
      [] intent = "Change_Parameter" -> "CREATE_CONFIRMATION_PLAN"
      [] OTHER -> NoStateChange

\* One user turn: the router returned an intent at a stage where its rubric
\* applies; the caller validates the transition to the stage the intent
\* implies and applies it only when it is accepted.
IntentTransition(intent) ==
    /\ wf_state \in rubric_stages(intent)
    /\ implied_state(intent) # NoStateChange
    /\ wf_query' = [asked |-> TRUE, from |-> wf_state, to |-> implied_state(intent),
                    valid |-> validate_transition(wf_state, implied_state(intent)),
                    next |-> get_next_states(wf_state), intent |-> intent]
    /\ wf_state' = IF validate_transition(wf_state, implied_state(intent))
                   THEN implied_state(intent) ELSE wf_state
    /\ wf_visited' = wf_visited \cup {wf_state'}
    /\ UNCHANGED <<procVars, clVars, pureVars>>

(***************************************************************************)
(* IntentRouter.classify                                                   *)
(***************************************************************************)
IntentTypes == {"Submit_Initial_Topic", "Submit_Clarification_Answers",
                "Accept_Plan", "Reject_Plan", "Accept_Strawman",
                "Submit_Refinement_Request", "Change_Topic",
                "Change_Parameter", "Ask_Help_Or_Question"}

\* extracted_info: Optional[str]; "None" stands for null.
NoInfo == "None"

UserIntent(intent_type, confidence, extracted_info) ==
    [intent_type |-> intent_type, confidence |-> confidence,
     extracted_info |-> extracted_info]

\* Contexts a caller can pass: a dict with or without "current_state", or a
\* value that is no dict (context.get then raises AttributeError).
Contexts ==
    [kind : {"dict"}, has_state : {TRUE}, current_state : QueryStates]
      \cup {[kind |-> "dict", has_state |-> FALSE, current_state |-> "NOT_A_STATE"],
            [kind |-> "not_a_dict", has_state |-> FALSE, current_state |-> "NOT_A_STATE"]}

Messages == {"Yes, proceed.", "forget it, do ancient history"}

\* Outputs the router agent can deliver as result.output.
RouterOutputs ==
    {UserIntent(t, c, e) : t \in IntentTypes, c \in {50, 99}, e \in {NoInfo, "topic"}}

\* Ways the body of the try block can fail.
RunFailures == {"ModelHTTPError", "UnexpectedModelBehavior"}

NoResult == UserIntent("Ask_Help_Or_Question", 0, "unset")

\* f-string of lines 143-146: context.get('current_state', 'PROVIDE_GREETING').
build_prompt(context, user_message) ==
    [current_state |-> IF context.has_state THEN context.current_state
                       ELSE "PROVIDE_GREETING",
     user_message |-> user_message]

\* A plausible slip: the handler guards only the model call, so an error
\* raised while the prompt is built leaves classify.
classify_except_modelOnly(e) ==
    IF e \in RunFailures
    THEN [raised |-> "none",
          result |-> UserIntent("Ask_Help_Or_Question", 50, NoInfo)]
    ELSE [raised |-> e, result |-> NoResult]

\* except Exception as e: return the default intent (lines 160-167).
classify_except(e) ==
    [raised |-> "none",
     result |-> UserIntent("Ask_Help_Or_Question", 50, NoInfo)]

\* classify up to the await of router_agent.run.
ClassifyStart ==
    /\ cl_pc = "start"
    /\ IF cl_context.kind = "dict"
       THEN /\ cl_prompt' = build_prompt(cl_context, cl_message)
            /\ cl_pc' = "awaiting_router"
            /\ UNCHANGED <<cl_failure, cl_result, cl_raised>>
       ELSE /\ cl_failure' = "AttributeError"
            /\ cl_result' = classify_except("AttributeError").result
            /\ cl_raised' = classify_except("AttributeError").raised
            /\ cl_pc' = IF classify_except("AttributeError").raised = "none"
                        THEN "returned" ELSE "raised"
            /\ UNCHANGED cl_prompt
    /\ UNCHANGED <<cl_context, cl_message, procVars, wfVars, pureVars>>

\* router_agent.run returned: intent = result.output is returned as is.
RouterReturn(intent) ==
    /\ cl_pc = "awaiting_router"
    /\ cl_result' = intent
    /\ cl_pc' = "returned"
    /\ UNCHANGED <<cl_context, cl_message, cl_prompt, cl_failure, cl_raised,
                   procVars, wfVars, pureVars>>

\* router_agent.run raised (model error, or output that fails validation).
RouterFail(e) ==
    /\ cl_pc = "awaiting_router"
    /\ cl_failure' = e
    /\ cl_result' = classify_except(e).result
    /\ cl_raised' = classify_except(e).raised
    /\ cl_pc' = IF classify_except(e).raised = "none" THEN "returned" ELSE "raised"
    /\ UNCHANGED <<cl_context, cl_message, cl_prompt, procVars, wfVars, pureVars>>

(***************************************************************************)
(* Data handled by DirectorAgent.process                                   *)
(***************************************************************************)
\* layout_id / layout_selection_reasoning: Optional[str]; "None" is null.
NoLayout == "None"
NoReasoning == "None"

SlideTypes == {"content_heavy", "section_divider"}

Slide(slide_id, slide_type, layout_id, reasoning) ==
    [slide_id |-> slide_id, slide_type |-> slide_type, layout_id |-> layout_id,
     layout_selection_reasoning |-> reasoning]

\* Strawmen of 0..MaxSlides slides; slide i has slide_id i, any slide type
\* and a layout_id out of `layouts`.
StrawmenWith(layouts) ==
    UNION {{[i \in 1..n |-> Slide(i, f[i][1], f[i][2], NoReasoning)] :
               f \in [1..n -> SlideTypes \X layouts]} : n \in 0..MaxSlides}

\* What the strawman / refine agent can deliver: layout_id is an optional
\* field of the output type, so the model may leave it null or fill it.
AgentStrawmen == StrawmenWith({NoLayout, "L07"})

\* What session_data can hold under "presentation_strawman".
\* main_title of a PresentationStrawman: the session's strawman has one
\* title, the strawman an agent delivers (new or refined) another.
NoTitle == ""
SessionTitles == {"Deck one"}
AgentTitles == {"Deck two"}

NoStrawman == [present |-> FALSE, main_title |-> NoTitle, slides |-> <<>>]
SessionStrawmen ==
    {[present |-> TRUE, main_title |-> t, slides |-> sl] :
        t \in SessionTitles, sl \in StrawmenWith({NoLayout, "L05"})}

LayoutSelection(layout_id, reasoning, confidence) ==
    [layout_id |-> layout_id, reasoning |-> reasoning, confidence |-> confidence]

\* Selections the semantic-matching model call can deliver.
AISelections ==
    {LayoutSelection(l, "semantic match", 90) : l \in {"L04", "L07"}}

GeneratedNone == "None"

EnrichedSlide(slide, generated_text, has_text_failure) ==
    [original_slide |-> slide, slide_id |-> slide.slide_id,
     generated_text |-> generated_text, has_text_failure |-> has_text_failure]

\* Exceptions an agent run can throw (lines 522-537 tell them apart).
AgentErrors == {"ModelHTTPError", "MALFORMED_FUNCTION_CALL", "MAX_TOKENS",
                "Connection error", "UnexpectedModelBehavior"}

NoError == "none"

\* Exceptions the layout-selection model call is made to throw here.
LayoutErrors == {"ModelHTTPError", "Connection error"}

\* The agent that serves a stage (lines 276-308, 375-381).
AgentStages == {"PROVIDE_GREETING", "ASK_CLARIFYING_QUESTIONS",
                "CREATE_CONFIRMATION_PLAN", "GENERATE_STRAWMAN",
                "REFINE_STRAWMAN"}

AgentOf(stage) ==
    CASE stage = "PROVIDE_GREETING" -> "greeting_agent"
      [] stage = "ASK_CLARIFYING_QUESTIONS" -> "questions_agent"
      [] stage = "CREATE_CONFIRMATION_PLAN" -> "plan_agent"
      [] stage = "GENERATE_STRAWMAN" -> "strawman_agent"
      [] stage = "REFINE_STRAWMAN" -> "refine_strawman_agent"

OutputTypeOf(stage) ==
    CASE stage = "PROVIDE_GREETING" -> "str"
      [] stage = "ASK_CLARIFYING_QUESTIONS" -> "ClarifyingQuestions"
      [] stage = "CREATE_CONFIRMATION_PLAN" -> "ConfirmationPlan"

\* Responses: `keys` are the keys of a dict response (empty for an object),
\* the other fields hold the values, with neutral values for absent keys.
Resp(type, keys, url, sm, cg, succ, failed, enriched) ==
    [type |-> type, keys |-> keys, url |-> url, strawman |-> sm,
     content_generated |-> cg, successful_slides |-> succ,
     failed_slides |-> failed, enriched_slides |-> enriched]

NoResponse == Resp("none", {}, 0, <<>>, FALSE, 0, 0, <<>>)

SimpleResponse(stage) ==
    Resp(OutputTypeOf(stage), {}, 0, <<>>, FALSE, 0, 0, <<>>)

\* response = strawman (lines 371, 373, 414, 416)
StrawmanResponse(sm) ==
    Resp("PresentationStrawman", {}, 0, sm, FALSE, 0, 0, <<>>)

\* lines 360-367 and 403-410
StrawmanUrlResponse(url, sm) ==
    Resp("presentation_url",
         {"type", "url", "presentation_id", "slide_count", "message", "strawman"},
         url, sm, FALSE, 0, 0, <<>>)

\* lines 470-481 and 515
EnrichedPresentationStrawman(sm, enriched, succ, failed) ==
    Resp("EnrichedPresentationStrawman", {}, 0, sm, FALSE, succ, failed, enriched)

\* lines 489-497
EnrichedUrlResponse(url, succ, failed) ==
    Resp("presentation_url",
         {"type", "url", "slide_count", "content_generated", "successful_slides",
          "failed_slides", "message"},
         url, <<>>, TRUE, succ, failed, <<>>)

\* lines 506-512
FallbackUrlResponse(url) ==
    Resp("presentation_url",
         {"type", "url", "slide_count", "content_generated", "message"},
         url, <<>>, FALSE, 0, 0, <<>>)

(***************************************************************************)
(* Pure steps of DirectorAgent.process                                     *)
(***************************************************************************)
\* A plausible slip: the last position is tested before the first.
SlidePosition_lastFirst(i, total) ==
    IF i = total THEN "last"
    ELSE IF i = 1 THEN "first"
    ELSE "middle"

\* lines 320-326, with the 1-based index i = idx + 1
SlidePosition(i, total) ==
    IF i = 1 THEN "first"
    ELSE IF i = total THEN "last"
    ELSE "middle"

NoSelection == LayoutSelection(NoLayout, NoReasoning, 0)

\* A plausible slip: the slide_type rule is tested before the positions.
mandatory_layout_typeFirst(slide, position) ==
    IF slide.slide_type = "section_divider"
    THEN [found |-> TRUE,
          selection |-> LayoutSelection("L02", "Section divider slide", 100)]
    ELSE IF position = "first"
    THEN [found |-> TRUE,
          selection |-> LayoutSelection("L01", "First slide - using title layout", 100)]
    ELSE IF position = "last"
    THEN [found |-> TRUE,
          selection |-> LayoutSelection("L03", "Last slide - using closing layout", 100)]
    ELSE [found |-> FALSE, selection |-> NoSelection]

\* _select_layout_by_use_case up to its model call: the three mandatory
\* rules, each an early return.
mandatory_layout(slide, position) ==
    IF position = "first"
    THEN [found |-> TRUE,
          selection |-> LayoutSelection("L01", "First slide - using title layout", 100)]
    ELSE IF position = "last"
    THEN [found |-> TRUE,
          selection |-> LayoutSelection("L03", "Last slide - using closing layout", 100)]
    ELSE IF slide.slide_type = "section_divider"
    THEN [found |-> TRUE,
          selection |-> LayoutSelection("L02", "Section divider slide", 100)]
    ELSE [found |-> FALSE, selection |-> NoSelection]

\* A plausible slip: the except branch logs the error and lets it go on.
fallback_selection_reraised(e) ==
    [raised |-> e, selection |-> NoSelection]

\* except branch of _select_layout_by_use_case (lines 639-646): nothing is
\* raised; the reasoning is the fixed prefix followed by str(e)[:100], and
\* every error text here is shorter than 100 characters.
fallback_selection(e) ==
    [raised |-> NoError,
     selection |-> LayoutSelection("L05",
                      "Fallback layout after AI selection error: " \o e, 50)]

\* A plausible slip: a layout_id the strawman agent already filled is kept.
assign_layout_keepExisting(sm, i, selection) ==
    IF sm[i].layout_id # NoLayout THEN sm
    ELSE [sm EXCEPT ![i].layout_id = selection.layout_id,
                    ![i].layout_selection_reasoning = selection.reasoning]

\* slide.layout_id = ...; slide.layout_selection_reasoning = ...
assign_layout(sm, i, selection) ==
    [sm EXCEPT ![i].layout_id = selection.layout_id,
               ![i].layout_selection_reasoning = selection.reasoning]

\* One entry of `selections`: what _select_layout_by_use_case was given and
\* returned, and whether it ran the model.
SelectionRecord(slide, position, selection, used_model) ==
    [slide_id |-> slide.slide_id, slide_type |-> slide.slide_type,
     position |-> position, selection |-> selection, used_model |-> used_model]

\* A plausible slip: the slide_type rule is tested before the positions.
transform_layout_typeFirst(sm, i) ==
    IF sm[i].layout_id # NoLayout THEN sm[i].layout_id
    ELSE IF sm[i].slide_type = "section_divider" THEN "L02"
    ELSE IF i = 1 THEN "L01"
    ELSE IF i = Len(sm) THEN "L03"
    ELSE "L05"

\* transform_presentation: the layout of output slide i
transform_layout(sm, i) ==
    IF sm[i].layout_id # NoLayout THEN sm[i].layout_id
    ELSE IF i = 1 THEN "L01"
    ELSE IF i = Len(sm) THEN "L03"
    ELSE IF sm[i].slide_type = "section_divider" THEN "L02"
    ELSE "L05"

\* enriched_data of transform_presentation: None, or the enriched presentation
NoEnriched == [present |-> FALSE, enriched_slides |-> <<>>]
EnrichedData(es) == [present |-> TRUE, enriched_slides |-> es]

\* the strawman process holds: its title and its slides
PresentationStrawman == [main_title |-> main_title, slides |-> strawman]

\* A plausible slip: the enriched slides are read in reverse order.
enriched_slide_at_reversed(enriched_data, i) ==
    enriched_data.enriched_slides[Len(enriched_data.enriched_slides) + 1 - i]

\* enriched_data.enriched_slides[idx] (line 120)
enriched_slide_at(enriched_data, i) == enriched_data.enriched_slides[i]

\* transform_presentation(strawman, enriched_data): the strawman's title and
\* one output slide per input slide, mapped with enriched_slides[idx] when
\* enriched data is given and its list is not empty.
transform_presentation(ps, enriched_data) ==
    [title |-> ps.main_title,
     with_enriched |-> enriched_data.present,
     slides |-> [i \in 1..Len(ps.slides) |->
                    [layout |-> transform_layout(ps.slides, i),
                     slide_id |-> ps.slides[i].slide_id,
                     generated |->
                        IF enriched_data.present /\ enriched_data.enriched_slides # <<>>
                        THEN enriched_slide_at(enriched_data, i).generated_text
                        ELSE GeneratedNone]]]

\* A plausible slip: the success branch counts nothing and the failure
\* branch counts a success.
text_failure_update_miscounted(es, slide, succ, failed) ==
    [enriched_slides |-> Append(es, EnrichedSlide(slide, GeneratedNone, TRUE)),
     successful_slides |-> succ + 1,
     failed_slides |-> failed]

\* except branch of the CONTENT_GENERATION loop (lines 457-465)
text_failure_update(es, slide, succ, failed) ==
    [enriched_slides |-> Append(es, EnrichedSlide(slide, GeneratedNone, TRUE)),
     successful_slides |-> succ,
     failed_slides |-> failed + 1]

\* try branch of the CONTENT_GENERATION loop after the await (lines 449-456)
text_success_update(es, slide, generated, succ, failed) ==
    [enriched_slides |-> Append(es, EnrichedSlide(slide, generated, FALSE)),
     successful_slides |-> succ + 1,
     failed_slides |-> failed]

\* A plausible slip: the slide whose text generation failed is tried again.
next_after_text_failure_retried(i, total) == i

\* The except sits inside the for: the loop goes on with the next slide.
next_after_text_failure(i, total) == i + 1

\* A plausible slip: the handler wraps what it caught in a new error.
process_except_wrapped(e) == "RuntimeError"

\* except ModelHTTPError: raise / except Exception: ... raise (lines 522-537)
process_except(e) == e

(***************************************************************************)
(* DirectorAgent.process, one action per stretch between two awaits        *)
(***************************************************************************)
Observed == <<model_calls, model_error, layout_errors, selections, text_calls, text_in_flight,
              text_failures, render_calls, render_outcomes>>
Config == <<deck_builder_enabled, has_schema_manager, text_service_enabled,
            current_state, session_strawman>>
Locals == <<strawman, main_title, idx, enriched_slides, successful_slides,
           failed_slides>>

\* return response
Return(r) ==
    /\ response' = r
    /\ pc' = "returned"
    /\ UNCHANGED raised

\* an exception reaches the handlers of lines 522-537 and leaves process
Raise(e) ==
    /\ raised' = process_except(e)
    /\ pc' = "raised"
    /\ UNCHANGED response

\* A plausible slip: the precondition of CONTENT_GENERATION is not tested.
strawman_missing_unchecked(strawman_data) == FALSE

\* if not strawman_data (line 424)
strawman_missing(strawman_data) == ~strawman_data.present

\* Entry of process up to the first await of the stage (lines 243-303,
\* 375-380, 418-440, 517-518).
Dispatch ==
    /\ pc = "start"
    /\ IF current_state \in AgentStages
       THEN /\ model_calls' = Append(model_calls, AgentOf(current_state))
            /\ pc' = "agent_run"
            /\ UNCHANGED <<strawman, main_title, idx, response, raised>>
       ELSE IF current_state = "CONTENT_GENERATION"
       THEN IF strawman_missing(session_strawman)
            THEN /\ Raise("ValueError: No strawman found in session for content generation")
                 /\ UNCHANGED <<strawman, main_title, idx, model_calls>>
            ELSE /\ strawman' = session_strawman.slides
                 /\ main_title' = session_strawman.main_title
                 /\ idx' = 1
                 /\ pc' = "text_loop"
                 /\ UNCHANGED <<response, raised, model_calls>>
       ELSE /\ Raise("ValueError: Unknown state")
            /\ UNCHANGED <<strawman, main_title, idx, model_calls>>
    /\ UNCHANGED <<Config, enriched_slides, successful_slides, failed_slides,
                   model_error, layout_errors, selections, text_calls, text_in_flight,
                   text_failures, render_calls, render_outcomes, wfVars, clVars, pureVars>>

\* The stage's agent run raised.
AgentFail(e) ==
    /\ pc = "agent_run"
    /\ model_error' = e
    /\ Raise(e)
    /\ UNCHANGED <<Config, Locals, model_calls, layout_errors, selections, text_calls,
                   text_in_flight, text_failures, render_calls, render_outcomes,
                   wfVars, clVars, pureVars>>

\* greeting, questions and plan: response = result.output
AgentReturnSimple ==
    /\ pc = "agent_run"
    /\ current_state \in {"PROVIDE_GREETING", "ASK_CLARIFYING_QUESTIONS",
                          "CREATE_CONFIRMATION_PLAN"}
    /\ Return(SimpleResponse(current_state))
    /\ UNCHANGED <<Config, Locals, Observed, wfVars, clVars, pureVars>>

\* strawman and refine: strawman = result.output, formatted; GENERATE_STRAWMAN
\* enters the layout loop, REFINE_STRAWMAN goes straight to the deck-builder.
\* AssetFormatter.format_strawman rewrites asset fields only, none of which
\* is part of Slide here.
AgentReturnStrawman(sm, title) ==
    /\ pc = "agent_run"
    /\ current_state \in {"GENERATE_STRAWMAN", "REFINE_STRAWMAN"}
    /\ strawman' = sm
    /\ main_title' = title
    /\ idx' = 1
    /\ pc' = IF current_state = "GENERATE_STRAWMAN" THEN "layout_loop"
             ELSE "deck_builder"
    /\ UNCHANGED <<Config, enriched_slides, successful_slides, failed_slides,
                   response, raised, Observed, wfVars, clVars, pureVars>>

(***************************************************************************)
(* GENERATE_STRAWMAN: layout selection loop (lines 316-343)                *)
(***************************************************************************)
CurrentSlide == strawman[idx]
CurrentPosition == SlidePosition(idx, Len(strawman))

\* A plausible slip: the loop stops one slide short.
LayoutLoopEnd_early ==
    /\ pc = "layout_loop"
    /\ idx >= Len(strawman)
    /\ pc' = "deck_builder"
    /\ UNCHANGED <<Config, Locals, response, raised, Observed, wfVars, clVars, pureVars>>

\* the for loop is exhausted
LayoutLoopEnd ==
    /\ pc = "layout_loop"
    /\ idx > Len(strawman)
    /\ pc' = "deck_builder"
    /\ UNCHANGED <<Config, Locals, response, raised, Observed, wfVars, clVars, pureVars>>

\* _select_layout_by_use_case returns from one of its mandatory rules
LayoutMandatory ==
    /\ pc = "layout_loop"
    /\ idx <= Len(strawman)
    /\ mandatory_layout(CurrentSlide, CurrentPosition).found
    /\ LET sel == mandatory_layout(CurrentSlide, CurrentPosition).selection
       IN /\ strawman' = assign_layout(strawman, idx, sel)
          /\ selections' = Append(selections,
                 SelectionRecord(CurrentSlide, CurrentPosition, sel, FALSE))
    /\ idx' = idx + 1
    /\ UNCHANGED <<Config, pc, main_title, enriched_slides, successful_slides, failed_slides,
                   response, raised, model_calls, model_error, layout_errors, text_calls,
                   text_in_flight, text_failures, render_calls, render_outcomes,
                   wfVars, clVars, pureVars>>

\* self.layout_schema_manager was never set (lines 93-107): line 582 raises
\* AttributeError outside any try of _select_layout_by_use_case.
LayoutNoManager ==
    /\ pc = "layout_loop"
    /\ idx <= Len(strawman)
    /\ ~mandatory_layout(CurrentSlide, CurrentPosition).found
    /\ ~has_schema_manager
    /\ Raise("AttributeError")
    /\ UNCHANGED <<Config, Locals, Observed, wfVars, clVars, pureVars>>

\* the semantic-matching model call is issued (lines 581-633)
LayoutCall ==
    /\ pc = "layout_loop"
    /\ idx <= Len(strawman)
    /\ ~mandatory_layout(CurrentSlide, CurrentPosition).found
    /\ has_schema_manager
    /\ model_calls' = Append(model_calls, "layout_selection")
    /\ pc' = "layout_run"
    /\ UNCHANGED <<Config, Locals, response, raised, model_error, layout_errors, selections,
                   text_calls, text_in_flight, text_failures, render_calls,
                   render_outcomes, wfVars, clVars, pureVars>>

\* what follows the model call of _select_layout_by_use_case, for a
\* selection `sel` it returned or fell back to
LayoutAssign(sel) ==
    /\ strawman' = assign_layout(strawman, idx, sel)
    /\ selections' = Append(selections,
           SelectionRecord(CurrentSlide, CurrentPosition, sel, TRUE))
    /\ idx' = idx + 1
    /\ pc' = "layout_loop"
    /\ UNCHANGED <<Config, main_title, enriched_slides, successful_slides, failed_slides,
                   response, raised, model_calls, model_error, text_calls,
                   text_in_flight, text_failures, render_calls, render_outcomes,
                   wfVars, clVars, pureVars>>

LayoutReturn(sel) ==
    /\ pc = "layout_run"
    /\ LayoutAssign(sel)
    /\ UNCHANGED layout_errors

\* the model call raised (lines 639-646)
LayoutFail(e) ==
    /\ pc = "layout_run"
    /\ layout_errors' = Append(layout_errors,
           [slide_id |-> CurrentSlide.slide_id, error |-> e])
    /\ IF fallback_selection(e).raised = NoError
       THEN LayoutAssign(fallback_selection(e).selection)
       ELSE /\ Raise(fallback_selection(e).raised)
            /\ UNCHANGED <<Config, Locals, model_calls, model_error,
                           selections, text_calls, text_in_flight,
                           text_failures, render_calls, render_outcomes,
                           wfVars, clVars, pureVars>>

(***************************************************************************)
(* GENERATE_STRAWMAN / REFINE_STRAWMAN: deck-builder (lines 345-373,       *)
(* 388-416)                                                                *)
(***************************************************************************)
\* if self.deck_builder_enabled: ... else: response = strawman
DeckDisabled ==
    /\ pc = "deck_builder"
    /\ ~deck_builder_enabled
    /\ Return(StrawmanResponse(strawman))
    /\ UNCHANGED <<Config, Locals, Observed, wfVars, clVars, pureVars>>

\* transform_presentation raises inside the try (it can only while mapping a
\* slide): response = strawman
DeckTransformFail ==
    /\ pc = "deck_builder"
    /\ deck_builder_enabled
    /\ Len(strawman) > 0
    /\ render_outcomes' = Append(render_outcomes, "transform_failed")
    /\ Return(StrawmanResponse(strawman))
    /\ UNCHANGED <<Config, Locals, model_calls, model_error, layout_errors, selections,
                   text_calls, text_in_flight, text_failures, render_calls,
                   wfVars, clVars, pureVars>>

\* create_presentation(api_payload) is awaited
DeckCall ==
    /\ pc = "deck_builder"
    /\ deck_builder_enabled
    /\ render_calls' = Append(render_calls,
                              transform_presentation(PresentationStrawman, NoEnriched))
    /\ pc' = "deck_run"
    /\ UNCHANGED <<Config, Locals, response, raised, model_calls, model_error, layout_errors,
                   selections, text_calls, text_in_flight, text_failures,
                   render_outcomes, wfVars, clVars, pureVars>>

\* The URL of a rendered deck is named after the call that created it.
\* create_presentation returned: the hybrid response
DeckReturn ==
    /\ pc = "deck_run"
    /\ render_outcomes' = Append(render_outcomes, "ok")
    /\ Return(StrawmanUrlResponse(Len(render_calls), strawman))
    /\ UNCHANGED <<Config, Locals, model_calls, model_error, layout_errors, selections,
                   text_calls, text_in_flight, text_failures, render_calls,
                   wfVars, clVars, pureVars>>

\* A plausible slip: the deck-builder call is not guarded, its error leaves
\* process.
DeckFail_unguarded ==
    /\ pc = "deck_run"
    /\ render_outcomes' = Append(render_outcomes, "api_failed")
    /\ Raise("DeckBuilderError")
    /\ UNCHANGED <<Config, Locals, model_calls, model_error, layout_errors, selections,
                   text_calls, text_in_flight, text_failures, render_calls,
                   wfVars, clVars, pureVars>>

\* create_presentation or get_full_url raised: response = strawman
DeckFail ==
    /\ pc = "deck_run"
    /\ render_outcomes' = Append(render_outcomes, "api_failed")
    /\ Return(StrawmanResponse(strawman))
    /\ UNCHANGED <<Config, Locals, model_calls, model_error, layout_errors, selections,
                   text_calls, text_in_flight, text_failures, render_calls,
                   wfVars, clVars, pureVars>>

(***************************************************************************)
(* CONTENT_GENERATION: per-slide text generation (lines 434-483, 651-716)  *)
(***************************************************************************)
\* the except branch of the loop, for the slide at idx
TextFailureRecorded ==
    LET u == text_failure_update(enriched_slides, CurrentSlide,
                                 successful_slides, failed_slides)
    IN /\ enriched_slides' = u.enriched_slides
       /\ successful_slides' = u.successful_slides
       /\ failed_slides' = u.failed_slides
       /\ text_failures' = text_failures \cup {idx}
       /\ idx' = next_after_text_failure(idx, Len(strawman))
       /\ pc' = "text_loop"

\* the for loop is exhausted: enriched_presentation is built
TextLoopEnd ==
    /\ pc = "text_loop"
    /\ idx > Len(strawman)
    /\ pc' = "enriched_ready"
    /\ UNCHANGED <<Config, Locals, response, raised, Observed, wfVars, clVars, pureVars>>

\* _generate_slide_text raises "Text Service is not enabled" (lines 676-677)
TextDisabled ==
    /\ pc = "text_loop"
    /\ idx <= Len(strawman)
    /\ ~text_service_enabled
    /\ TextFailureRecorded
    /\ UNCHANGED <<Config, strawman, main_title, response, raised, model_calls, model_error,
                   layout_errors,
                   selections, text_calls, text_in_flight, render_calls,
                   render_outcomes, wfVars, clVars, pureVars>>

\* self.layout_schema_manager was never set: line 693 raises AttributeError
TextNoManager ==
    /\ pc = "text_loop"
    /\ idx <= Len(strawman)
    /\ text_service_enabled
    /\ ~has_schema_manager
    /\ TextFailureRecorded
    /\ UNCHANGED <<Config, strawman, main_title, response, raised, model_calls, model_error,
                   layout_errors,
                   selections, text_calls, text_in_flight, render_calls,
                   render_outcomes, wfVars, clVars, pureVars>>

\* build_content_request or the conversion to the v1.0 request raises
\* (lines 693-710), e.g. for a layout_id the catalog does not know
TextRequestFail ==
    /\ pc = "text_loop"
    /\ idx <= Len(strawman)
    /\ text_service_enabled
    /\ has_schema_manager
    /\ TextFailureRecorded
    /\ UNCHANGED <<Config, strawman, main_title, response, raised, model_calls, model_error,
                   layout_errors,
                   selections, text_calls, text_in_flight, render_calls,
                   render_outcomes, wfVars, clVars, pureVars>>

\* _generate_slide_text: the layout whose schema the request is built from
\* (lines 679-683): slide.layout_id, or "L05" when it is missing
request_layout(sm, i) ==
    IF sm[i].layout_id # NoLayout THEN sm[i].layout_id ELSE "L05"

\* what build_content_request is asked for one slide (lines 693-697)
TextRequest(sm, i) ==
    [slide_id |-> sm[i].slide_id, layout_id |-> request_layout(sm, i)]

\* text_client.generate(v1_request) is awaited (line 713)
TextCall ==
    /\ pc = "text_loop"
    /\ idx <= Len(strawman)
    /\ text_service_enabled
    /\ has_schema_manager
    /\ text_calls' = Append(text_calls, TextRequest(strawman, idx))
    /\ text_in_flight' = text_in_flight \cup {idx}
    /\ pc' = "text_run"
    /\ UNCHANGED <<Config, Locals, response, raised, model_calls, model_error, layout_errors,
                   selections, text_failures, render_calls, render_outcomes,
                   wfVars, clVars, pureVars>>

\* text_client.generate returned a GeneratedText
TextReturn(generated) ==
    /\ pc = "text_run"
    /\ LET u == text_success_update(enriched_slides, CurrentSlide, generated,
                                    successful_slides, failed_slides)
       IN /\ enriched_slides' = u.enriched_slides
          /\ successful_slides' = u.successful_slides
          /\ failed_slides' = u.failed_slides
    /\ text_in_flight' = text_in_flight \ {idx}
    /\ idx' = idx + 1
    /\ pc' = "text_loop"
    /\ UNCHANGED <<Config, strawman, main_title, response, raised, model_calls, model_error,
                   layout_errors,
                   selections, text_calls, text_failures, render_calls,
                   render_outcomes, wfVars, clVars, pureVars>>

\* text_client.generate raised (timeout, HTTP error, malformed response)
TextFail ==
    /\ pc = "text_run"
    /\ text_in_flight' = text_in_flight \ {idx}
    /\ TextFailureRecorded
    /\ UNCHANGED <<Config, strawman, main_title, response, raised, model_calls, model_error,
                   layout_errors,
                   selections, text_calls, render_calls, render_outcomes,
                   wfVars, clVars, pureVars>>

(***************************************************************************)
(* CONTENT_GENERATION: rendering and fallback (lines 485-515, 792-822)     *)
(***************************************************************************)
\* else: response = enriched_presentation
EnrichedDisabled ==
    /\ pc = "enriched_ready"
    /\ ~deck_builder_enabled
    /\ Return(EnrichedPresentationStrawman(strawman, enriched_slides,
                                           successful_slides, failed_slides))
    /\ UNCHANGED <<Config, Locals, Observed, wfVars, clVars, pureVars>>

\* _send_enriched_to_layout_architect: transform_presentation raises
EnrichedTransformFail ==
    /\ pc = "enriched_ready"
    /\ deck_builder_enabled
    /\ Len(strawman) > 0
    /\ render_outcomes' = Append(render_outcomes, "transform_failed")
    /\ pc' = "fallback"
    /\ UNCHANGED <<Config, Locals, response, raised, model_calls, model_error, layout_errors,
                   selections, text_calls, text_in_flight, text_failures,
                   render_calls, wfVars, clVars, pureVars>>

\* _send_enriched_to_layout_architect: create_presentation is awaited
EnrichedCall ==
    /\ pc = "enriched_ready"
    /\ deck_builder_enabled
    /\ render_calls' = Append(render_calls,
           transform_presentation(PresentationStrawman, EnrichedData(enriched_slides)))
    /\ pc' = "enriched_run"
    /\ UNCHANGED <<Config, Locals, response, raised, model_calls, model_error, layout_errors,
                   selections, text_calls, text_in_flight, text_failures,
                   render_outcomes, wfVars, clVars, pureVars>>

\* the enriched deck was created
EnrichedReturn ==
    /\ pc = "enriched_run"
    /\ render_outcomes' = Append(render_outcomes, "ok")
    /\ Return(EnrichedUrlResponse(Len(render_calls), successful_slides,
                                  failed_slides))
    /\ UNCHANGED <<Config, Locals, model_calls, model_error, layout_errors, selections,
                   text_calls, text_in_flight, text_failures, render_calls,
                   wfVars, clVars, pureVars>>

\* create_presentation or get_full_url raised: the except branch of line 499
EnrichedFail ==
    /\ pc = "enriched_run"
    /\ render_outcomes' = Append(render_outcomes, "api_failed")
    /\ pc' = "fallback"
    /\ UNCHANGED <<Config, Locals, response, raised, model_calls, model_error, layout_errors,
                   selections, text_calls, text_in_flight, text_failures,
                   render_calls, wfVars, clVars, pureVars>>

\* line 503 raises inside the except branch: nothing catches it there
FallbackTransformFail ==
    /\ pc = "fallback"
    /\ Len(strawman) > 0
    /\ render_outcomes' = Append(render_outcomes, "transform_failed")
    /\ Raise("TransformError")
    /\ UNCHANGED <<Config, Locals, model_calls, model_error, layout_errors, selections,
                   text_calls, text_in_flight, text_failures, render_calls,
                   wfVars, clVars, pureVars>>

\* line 504: the strawman with placeholder content is sent
FallbackCall ==
    /\ pc = "fallback"
    /\ render_calls' = Append(render_calls,
                              transform_presentation(PresentationStrawman, NoEnriched))
    /\ pc' = "fallback_run"
    /\ UNCHANGED <<Config, Locals, response, raised, model_calls, model_error, layout_errors,
                   selections, text_calls, text_in_flight, text_failures,
                   render_outcomes, wfVars, clVars, pureVars>>

\* the fallback deck was created
FallbackReturn ==
    /\ pc = "fallback_run"
    /\ render_outcomes' = Append(render_outcomes, "ok")
    /\ Return(FallbackUrlResponse(Len(render_calls)))
    /\ UNCHANGED <<Config, Locals, model_calls, model_error, layout_errors, selections,
                   text_calls, text_in_flight, text_failures, render_calls,
                   wfVars, clVars, pureVars>>

\* lines 504-505 raise inside the except branch: the error leaves process
FallbackFail ==
    /\ pc = "fallback_run"
    /\ render_outcomes' = Append(render_outcomes, "api_failed")
    /\ Raise("DeckBuilderError")
    /\ UNCHANGED <<Config, Locals, model_calls, model_error, layout_errors, selections,
                   text_calls, text_in_flight, text_failures, render_calls,
                   wfVars, clVars, pureVars>>

(***************************************************************************)
(* ContentTransformer.truncate (content_transformer.py lines 607-643)      *)
(* A str is a sequence of one-character strings.                           *)
(***************************************************************************)
Chars == {"a", " ", "."}

Texts == UNION {[1..n -> Chars] : n \in 0..MaxTextLen}

NewLine == "\n"
Tab == "\t"

\* c * n
Rep(c, n) == [i \in 1..n |-> c]

\* Longer texts: two sentence endings of different kinds close to the cut, a
\* sentence ending at exactly 70% of max_chars = 10, and words separated by a
\* newline or a tab.
LongTexts ==
    {Rep("a", 15) \o <<".", " ", "a", "!", " ">> \o Rep("a", 5),
     Rep("a", 15) \o <<"!", " ", "a", ".", " ">> \o Rep("a", 5),
     Rep("a", 15) \o <<"!", " ", "a", "?", " ">> \o Rep("a", 5),
     Rep("a", 15) \o <<"?", " ", "a", "!", " ">> \o Rep("a", 5),
     Rep("a", 11) \o <<"?", " ">> \o Rep("a", 12),
     Rep("a", 7) \o <<".", " ">> \o Rep("a", 16),
     Rep("a", 4) \o <<NewLine>> \o Rep("a", 20),
     Rep("a", 4) \o <<Tab>> \o Rep("a", 20),
     <<"a", "a", " ">> \o Rep("a", 4) \o <<NewLine>> \o Rep("a", 17)}

\* text[:n] for n >= 0
Take(text, n) == SubSeq(text, 1, IF n < Len(text) THEN n ELSE Len(text))

MaxOf(S) == CHOOSE x \in S : \A y \in S : y <= x

\* str.rfind: the highest 0-based index at which `sub` starts, or -1
rfind(text, sub) ==
    LET hits == {i \in 1..(Len(text) - Len(sub) + 1) :
                    SubSeq(text, i, i + Len(sub) - 1) = sub}
    IN IF hits = {} THEN -1 ELSE MaxOf(hits) - 1

\* for delimiter in ['. ', '! ', '? ']
Delimiters == << <<".", " ">>, <<"!", " ">>, <<"?", " ">> >>

Ellipsis == <<".", ".", ".">>

\* last_delimiter > max_chars * 0.7, in tenths (the float product agrees
\* with the exact one for every max_chars below 90)
AboveSeventyPercent(last_delimiter, max_chars) ==
    10 * last_delimiter > 7 * max_chars

\* A plausible slip: the slice keeps one character too many.
truncate_offByOne(text, max_chars, add_ellipsis) ==
    IF text = <<>> THEN <<>>
    ELSE IF Len(text) <= max_chars THEN text
    ELSE Take(text, max_chars + 1) \o (IF add_ellipsis THEN Ellipsis ELSE <<>>)

\* A plausible slip: the ellipsis of the earlier version is still added
\* whatever the caller asks for.
truncate_ellipsisByDefault(text, max_chars, add_ellipsis) ==
    IF text = <<>> THEN <<>>
    ELSE IF Len(text) <= max_chars THEN text
    ELSE LET truncated == Take(text, max_chars)
             last_space == rfind(truncated, <<" ">>)
         IN IF last_space > 0
            THEN Take(truncated, last_space) \o Ellipsis
            ELSE truncated \o Ellipsis

\* A plausible slip: the sentence cut gets the ellipsis too.
truncate_ellipsisAfterSentence(text, max_chars, add_ellipsis) ==
    IF text = <<>> THEN <<>>
    ELSE IF Len(text) <= max_chars THEN text
    ELSE LET truncated == Take(text, max_chars)
             last_space == rfind(truncated, <<" ">>)
             suffix == IF add_ellipsis THEN Ellipsis ELSE <<>>
         IN IF AboveSeventyPercent(rfind(truncated, <<".", " ">>), max_chars)
            THEN Take(truncated, rfind(truncated, <<".", " ">>) + 1) \o suffix
            ELSE IF last_space > 0
            THEN Take(truncated, last_space) \o suffix
            ELSE truncated \o suffix

truncate(text, max_chars, add_ellipsis) ==
    IF text = <<>> THEN <<>>
    ELSE IF Len(text) <= max_chars THEN text
    ELSE LET truncated == Take(text, max_chars)
             \* the delimiters, in loop order, whose last occurrence is far
             \* enough to the right
             qualifying == {k \in 1..Len(Delimiters) :
                 AboveSeventyPercent(rfind(truncated, Delimiters[k]), max_chars)}
             first == CHOOSE k \in qualifying : \A j \in qualifying : k <= j
             last_space == rfind(truncated, <<" ">>)
             suffix == IF add_ellipsis THEN Ellipsis ELSE <<>>
         IN IF qualifying # {}
            THEN Take(truncated, rfind(truncated, Delimiters[first]) + 1)
            ELSE IF last_space > 0
            THEN Take(truncated, last_space) \o suffix
            ELSE truncated \o suffix

\* One call truncate(text, max_chars, add_ellipsis), and the same call on
\* its result.
Truncate(max_chars, add_ellipsis) ==
    /\ tc_pc = "start"
    /\ tc_max_chars' = max_chars
    /\ tc_add_ellipsis' = add_ellipsis
    /\ tc_result' = truncate(tc_text, max_chars, add_ellipsis)
    /\ tc_again' = truncate(truncate(tc_text, max_chars, add_ellipsis),
                            max_chars, add_ellipsis)
    /\ tc_pc' = "done"
    /\ UNCHANGED <<tc_text, trVars, rqVars, procVars, wfVars, clVars>>

(***************************************************************************)
(* ContentTransformer.transform_slide (content_transformer.py lines        *)
(* 136-605).  Generated content is drawn absent or as a structured         *)
(* mapping; dicts are functions from field names to values.                *)
(***************************************************************************)
\* Budgets of the layout catalog, scaled down to the texts used here.
FieldMaxChars == 4
ListMaxItems == 2
ItemMaxChars == 3
InsightMaxChars == 12

\* slide.narrative[:80], slide.narrative[:200]
NarrativeSubtitleCut == 80
NarrativeSummaryCut == 200
\* len(line) > 10
MinLineLength == 10

\* truncate(title, 40), truncate(description, 150)
ItemTitleMax == 40
ItemDescriptionMax == 150

\* a or b on str
Or(a, b) == IF a # <<>> THEN a ELSE b

\* d.get(k, default)
Get(d, k, default) == IF k \in DOMAIN d THEN d[k] ELSE default

\* sep.join(texts)
RECURSIVE Join(_, _)
Join(texts, sep) ==
    IF texts = <<>> THEN <<>>
    ELSE IF Len(texts) = 1 THEN texts[1]
    ELSE texts[1] \o sep \o Join(Tail(texts), sep)

\* The layouts with a mapper of their own, and L07 and L20 for the generic
\* mapper.
Layouts == {"L01", "L02", "L03", "L04", "L05", "L06", "L07", "L10", "L17", "L20"}

ArrayFields == {"bullets", "numbered_items", "key_insights"}

\* Field names of each layout's content schema: the fields its mapper reads
\* and writes.
FieldNames(layout_id) ==
    CASE layout_id = "L01" ->
            {"main_title", "subtitle", "presenter_name", "organization", "date"}
      [] layout_id = "L02" -> {"section_title"}
      [] layout_id = "L03" ->
            {"closing_message", "subtitle", "contact_email", "website",
             "social_media"}
      [] layout_id = "L04" ->
            {"slide_title", "subtitle", "main_text_content", "summary"}
      [] layout_id = "L05" -> {"slide_title", "subtitle", "bullets"}
      [] layout_id = "L06" -> {"slide_title", "subtitle", "numbered_items"}
      [] layout_id = "L07" -> {"quote_text", "attribution"}
      [] layout_id = "L10" ->
            {"slide_title", "subtitle", "image", "text_content"}
      [] layout_id = "L17" ->
            {"slide_title", "subtitle", "chart_url", "key_insights", "summary"}
      [] layout_id = "L20" -> {"slide_title", "bullets"}

FieldSpec(field) ==
    IF field \in ArrayFields
    THEN [type |-> "array", max_chars |-> 0, max_items |-> ListMaxItems,
          max_chars_per_item |-> IF field = "key_insights" THEN InsightMaxChars
                                 ELSE ItemMaxChars]
    ELSE [type |-> "string", max_chars |-> FieldMaxChars, max_items |-> 0,
          max_chars_per_item |-> 0]

\* self.schema_manager.get_schema(layout_id)
get_schema(layout_id) ==
    [layout_id |-> layout_id,
     content_schema |-> [f \in FieldNames(layout_id) |-> FieldSpec(f)]]

\* The fields a content schema marks `required: true`.  The catalog's schema
\* definitions are loaded by LayoutSchemaManager; the flags known are those
\* of the quote layout L07, whose two fields are both required.
required_fields(layout_id) ==
    IF layout_id = "L07" THEN {"quote_text", "attribution"} ELSE {}

\* validate_content(layout_id, content): the required fields that are missing
missing_required(layout_id, content) == required_fields(layout_id) \ DOMAIN content

\* The parts of a Slide and of a PresentationStrawman the mappers read.
\* An asset field that is None is the empty text.
ContentSlide(title, narrative, key_points, analytics, visuals, diagrams) ==
    [title |-> title, narrative |-> narrative, key_points |-> key_points,
     analytics_needed |-> analytics, visuals_needed |-> visuals,
     diagrams_needed |-> diagrams]

TitleTexts == {<<"K", "e", "y">>,
               <<"K", "e", "y", " ", "b", "e", "n", "e", "f", "i", "t", "s">>}

NarrativeTexts == {<<>>, <<"O", "v", "e", "r", "v", "i", "e", "w", ".">>}

KeyPointLists ==
    {<<>>,
     << <<"P", "1">> >>,
     << <<"P", "1">>, <<"G", "o", ":", "n", "o", "w">>,
        <<"P", "o", "i", "n", "t", " ", "3">> >>}

\* Asset descriptions, the section markers of AssetFormatter as one token.
PlainAsset == <<"b", "a", "r", " ", "c", "h", "a", "r", "t">>
FormattedAsset == <<"**Goal:**", "g", "**Content:**", " ", "c", " ",
                    "**Style:**", "s">>

ContentSlides ==
    {ContentSlide(t, n, k, a, v, d) :
        t \in TitleTexts, n \in NarrativeTexts, k \in KeyPointLists,
        a \in {<<>>, FormattedAsset}, v \in {<<>>, PlainAsset, FormattedAsset},
        d \in {<<>>, PlainAsset}}

Presentation ==
    [main_title |-> <<"D", "e", "c", "k", " ", "o", "n", "e">>,
     overall_theme |-> <<"T", "h", "e", "m", "e">>,
     target_audience |-> <<"E", "x", "e", "c", "s">>]

\* enriched_slide: None, or an EnrichedSlide whose generated_text is None or
\* a GeneratedText with a dict or a str as content
NoGenerated == [present |-> FALSE, kind |-> "none", content |-> <<>>]
GeneratedText(content) == [present |-> TRUE, kind |-> "dict", content |-> content]
LegacyText(content) == [present |-> TRUE, kind |-> "str", content |-> content]
NoEnrichedSlide ==
    [given |-> FALSE, generated_text |-> NoGenerated, has_text_failure |-> FALSE]
EnrichedInput(generated_text, has_text_failure) ==
    [given |-> TRUE, generated_text |-> generated_text,
     has_text_failure |-> has_text_failure]

\* The value the Text Service generated for a field: longer than any budget.
GenValue(field) ==
    <<"<", "p", ">", "g", "e", "n", "e", "r", "a", "t", "e", "d", " ", field>>

\* Structured contents for a layout: any of its schema fields, and possibly
\* a field the schema does not have.
GeneratedContents(layout_id) ==
    {[f \in keys |-> GenValue(f)] :
        keys \in SUBSET (FieldNames(layout_id) \cup {"extra_field"})}

\* The bullet markers that are not ASCII, as one-character tokens.
Bullet == "U+2022"
EnDash == "U+2013"

\* Three marked lines that qualify and a short one.
\* 'U+2022 alpha item one\n- bravo item two\nshort\n* charlie item 3'
MarkedLines ==
    <<Bullet, " ", "a", "l", "p", "h", "a", " ", "i", "t", "e", "m", " ",
           "o", "n", "e", NewLine, "-", " ", "b", "r", "a", "v", "o", " ",
           "i", "t", "e", "m", " ", "t", "w", "o", NewLine, "s", "h", "o",
           "r", "t", NewLine, "*", " ", "c", "h", "a", "r", "l", "i", "e",
           " ", "i", "t", "e", "m", " ", "3">>

\* A line of exactly 10 characters before two longer ones.
\* 'tenletters\nelevenchars\n  twelve chars \n'
TenCharLine ==
    <<"t", "e", "n", "l", "e", "t", "t", "e", "r", "s", NewLine, "e", "l",
           "e", "v", "e", "n", "c", "h", "a", "r", "s", NewLine, " ", " ",
           "t", "w", "e", "l", "v", "e", " ", "c", "h", "a", "r", "s", " ",
           NewLine>>

\* One qualifying line only.
\* '- only one long line\nshort'
OneLongLine ==
    <<"-", " ", "o", "n", "l", "y", " ", "o", "n", "e", " ", "l", "o", "n",
           "g", " ", "l", "i", "n", "e", NewLine, "s", "h", "o", "r", "t">>

\* Two markers on a line, a tab after a marker.
\* 'U+2013U+2013 double marker text\n-\tTabbed marker line\n'
DoubleMarker ==
    <<EnDash, EnDash, " ", "d", "o", "u", "b", "l", "e", " ", "m", "a", "r",
           "k", "e", "r", " ", "t", "e", "x", "t", NewLine, "-", Tab, "T",
           "a", "b", "b", "e", "d", " ", "m", "a", "r", "k", "e", "r", " ",
           "l", "i", "n", "e", NewLine>>

\* Numbered steps, short lines and a blank line.
\* '1. Plan - do it\nGo: now\n\nwrap'
NumberedSteps ==
    <<"1", ".", " ", "P", "l", "a", "n", " ", "-", " ", "d", "o", " ", "i",
           "t", NewLine, "G", "o", ":", " ", "n", "o", "w", NewLine, NewLine,
           "w", "r", "a", "p">>

\* A title longer than 40 characters.
\* 'ttttttttttttttttttttttttttttttttttttttttt: described\n2. second step'
LongTitle ==
    Rep("t", 41) \o
    <<":", " ", "d", "e", "s", "c", "r", "i", "b", "e", "d", NewLine, "2",
           ".", " ", "s", "e", "c", "o", "n", "d", " ", "s", "t", "e", "p">>

\* A single line.
\* 'Single step'
SingleLine == <<"S", "i", "n", "g", "l", "e", " ", "s", "t", "e", "p">>

\* Legacy (str) contents of a GeneratedText, the empty string included.
LegacyStrings ==
    {<<>>, SingleLine, MarkedLines, TenCharLine, OneLongLine, DoubleMarker,
     NumberedSteps, LongTitle}

EnrichedInputs(layout_id) ==
    {NoEnrichedSlide, EnrichedInput(NoGenerated, TRUE), EnrichedInput(NoGenerated, FALSE)}
      \cup {EnrichedInput(LegacyText(c), f) : c \in LegacyStrings, f \in BOOLEAN}
      \cup {EnrichedInput(GeneratedText(c), FALSE) : c \in GeneratedContents(layout_id)}
      \cup {EnrichedInput(GeneratedText([f \in FieldNames(layout_id) |-> GenValue(f)]),
                          TRUE)}

\* A plausible slip: the failure flag is not looked at.
has_generated_unflagged(enriched_slide) ==
    /\ enriched_slide.given
    /\ enriched_slide.generated_text.present

\* if enriched_slide and enriched_slide.generated_text and not
\* enriched_slide.has_text_failure
has_generated(enriched_slide) ==
    /\ enriched_slide.given
    /\ enriched_slide.generated_text.present
    /\ ~enriched_slide.has_text_failure

_is_structured_content(generated_text) == generated_text.kind = "dict"

use_structured(enriched_slide) ==
    has_generated(enriched_slide)
      /\ _is_structured_content(enriched_slide.generated_text)

\* text.split(marker, 1): the parts before and after the first marker
Before(text, marker) ==
    LET hits == {i \in 1..Len(text) : text[i] = marker}
    IN IF hits = {} THEN text
       ELSE SubSeq(text, 1, (CHOOSE i \in hits : \A j \in hits : i <= j) - 1)

After(text, marker) ==
    LET hits == {i \in 1..Len(text) : text[i] = marker}
    IN IF hits = {} THEN <<>>
       ELSE SubSeq(text, (CHOOSE i \in hits : \A j \in hits : i <= j) + 1, Len(text))

Whitespace == {" ", NewLine, Tab}

\* str.strip()
RECURSIVE strip(_)
strip(text) ==
    IF text = <<>> THEN <<>>
    ELSE IF Head(text) \in Whitespace THEN strip(Tail(text))
    ELSE IF text[Len(text)] \in Whitespace
    THEN strip(SubSeq(text, 1, Len(text) - 1))
    ELSE text

\* generate_placeholder(asset_description, asset_type) (lines 645-666)
generate_placeholder(asset_description, asset_type) ==
    IF "**Goal:**" \in Range(asset_description)
         /\ "**Content:**" \in Range(asset_description)
    THEN <<"PLACEHOLDER_", asset_type, ":", " ">>
            \o strip(Before(After(asset_description, "**Content:**"), "**Style:**"))
    ELSE <<"PLACEHOLDER_", asset_type, ":", " ">> \o asset_description

NoneValue == <<"None">>

\* L01 (lines 195-207)
_map_title_slide(slide, fields, presentation, enriched_slide) ==
    [f \in {"main_title", "subtitle", "presenter_name", "organization", "date"} |->
        CASE f = "main_title" ->
                truncate(presentation.main_title, fields["main_title"].max_chars, FALSE)
          [] f = "subtitle" ->
                truncate(Or(slide.narrative, presentation.overall_theme),
                         fields["subtitle"].max_chars, FALSE)
          [] f = "presenter_name" -> <<"AI-Generated Presentation">>
          [] f = "organization" ->
                truncate(presentation.target_audience,
                         fields["organization"].max_chars, FALSE)
          [] f = "date" -> <<"%Y-%m-%d">>]

\* L02 (lines 209-214)
_map_section_divider(slide, fields, presentation, enriched_slide) ==
    [f \in {"section_title"} |->
        truncate(slide.title, fields["section_title"].max_chars, FALSE)]

\* L03 (lines 216-227)
_map_closing_slide(slide, fields, presentation, enriched_slide) ==
    [f \in {"closing_message", "subtitle", "contact_email", "website",
            "social_media"} |->
        CASE f = "closing_message" ->
                truncate(Or(slide.title, <<"Thank You">>),
                         fields["closing_message"].max_chars, FALSE)
          [] f = "subtitle" ->
                truncate(Or(slide.narrative, <<"Questions & Discussion">>),
                         fields["subtitle"].max_chars, FALSE)
          [] f = "contact_email" -> <<"contact@example.com">>
          [] f = "website" -> <<"www.example.com">>
          [] f = "social_media" -> <<"@example">>]

\* narrative, then the key points, separated by blank lines
narrative_and_points(slide) ==
    IF slide.key_points # <<>>
    THEN slide.narrative \o <<NewLine, NewLine>>
            \o Join(slide.key_points, <<NewLine, NewLine>>)
    ELSE slide.narrative

\* the running text of L04 and L10 when the content is not structured
\* (lines 255-262, 457-464)
main_text_of(slide, enriched_slide) ==
    IF has_generated(enriched_slide)
    THEN enriched_slide.generated_text.content
    ELSE narrative_and_points(slide)

\* slide.key_points[-1] if slide.key_points else slide.narrative[:200]
summary_of(slide) ==
    IF slide.key_points # <<>>
    THEN slide.key_points[Len(slide.key_points)]
    ELSE Take(slide.narrative, NarrativeSummaryCut)

\* the optional fields a structured branch copies: in the schema and generated
copied(names, fields, generated_content) ==
    {f \in names : f \in DOMAIN fields /\ f \in DOMAIN generated_content}

\* L04 (lines 229-273)
_map_text_summary(slide, fields, presentation, enriched_slide) ==
    IF use_structured(enriched_slide)
    THEN LET generated_content == enriched_slide.generated_text.content
         IN [f \in {"slide_title", "main_text_content"}
                     \cup copied({"subtitle", "summary"}, fields, generated_content) |->
                CASE f = "slide_title" ->
                        Get(generated_content, "slide_title", slide.title)
                  [] f = "main_text_content" ->
                        Get(generated_content, "main_text_content", <<>>)
                  [] OTHER -> generated_content[f]]
    ELSE [f \in {"slide_title", "subtitle", "main_text_content", "summary"} |->
            CASE f = "slide_title" ->
                    truncate(slide.title, fields["slide_title"].max_chars, FALSE)
              [] f = "subtitle" ->
                    IF "subtitle" \in DOMAIN fields
                    THEN truncate(Take(slide.narrative, NarrativeSubtitleCut),
                                  fields["subtitle"].max_chars, FALSE)
                    ELSE NoneValue
              [] f = "main_text_content" ->
                    truncate(main_text_of(slide, enriched_slide),
                             fields["main_text_content"].max_chars, FALSE)
              [] f = "summary" ->
                    IF "summary" \in DOMAIN fields
                    THEN truncate(summary_of(slide), fields["summary"].max_chars, FALSE)
                    ELSE NoneValue]

\* every key point, without the [:max_items] slice
points_as_items_unsliced(slide, max_items, max_chars) ==
    [i \in 1..Len(slide.key_points) |->
        truncate(slide.key_points[i], max_chars, FALSE)]

\* [self.truncate(point, max_chars) for point in slide.key_points[:max_items]]
points_as_items(slide, max_items, max_chars) ==
    [i \in 1..(IF Len(slide.key_points) < max_items
               THEN Len(slide.key_points) ELSE max_items) |->
        truncate(slide.key_points[i], max_chars, FALSE)]

\* text.split(sep)
RECURSIVE split(_, _)
split(text, sep) ==
    IF sep \notin Range(text) THEN <<text>>
    ELSE <<Before(text, sep)>> \o split(After(text, sep), sep)

\* for marker in ['U+2022', '-', '*', 'U+2013']
Markers == {Bullet, "-", "*", EnDash}

\* lines 305-310: strip the line, then drop one leading marker and strip again
unmarked(line) ==
    LET stripped == strip(line)
    IN IF stripped # <<>> /\ Head(stripped) \in Markers
       THEN strip(Tail(stripped))
       ELSE stripped

\* a line of exactly 10 characters kept as well
long_enough_fromTen(line) == line # <<>> /\ Len(line) >= MinLineLength

\* if line and len(line) > 10 (line 311)
long_enough(line) == line # <<>> /\ Len(line) > MinLineLength

\* the loop without its break at max_items
RECURSIVE parse_bullets_noBreak(_, _, _, _)
parse_bullets_noBreak(lines, bullets, max_items, max_chars) ==
    IF lines = <<>> THEN bullets
    ELSE LET line == unmarked(Head(lines))
         IN parse_bullets_noBreak(Tail(lines),
                IF long_enough(line)
                THEN Append(bullets, truncate(line, max_chars, FALSE))
                ELSE bullets,
                max_items, max_chars)

\* the loop of lines 304-314 from the lines still to read and the bullets
\* collected so far
RECURSIVE parse_bullets(_, _, _, _)
parse_bullets(lines, bullets, max_items, max_chars) ==
    IF lines = <<>> THEN bullets
    ELSE LET line == unmarked(Head(lines))
             appended == Append(bullets, truncate(line, max_chars, FALSE))
         IN IF long_enough(line)
            THEN IF Len(appended) >= max_items
                 THEN appended
                 ELSE parse_bullets(Tail(lines), appended, max_items, max_chars)
            ELSE parse_bullets(Tail(lines), bullets, max_items, max_chars)

\* a single parsed item is enough
too_few_onlyEmpty(items) == Len(items) < 1

\* if len(bullets) < 2 (lines 317-318)
too_few(items) == Len(items) < 2

\* lines 302-318: the parsed bullets, or the key points when the parse gave
\* fewer than two
legacy_bullets(slide, generated_content, max_items, max_chars) ==
    LET bullets == parse_bullets(split(generated_content, NewLine), <<>>,
                                 max_items, max_chars)
    IN IF too_few(bullets)
       THEN points_as_items(slide, max_items, max_chars)
       ELSE bullets

\* the list of a bullet-type field when the content is not structured
bullets_of(slide, enriched_slide, max_items, max_chars) ==
    IF has_generated(enriched_slide)
    THEN legacy_bullets(slide, enriched_slide.generated_text.content, max_items,
                        max_chars)
    ELSE points_as_items(slide, max_items, max_chars)

\* L05 (lines 275-333)
_map_bullet_list(slide, fields, presentation, enriched_slide) ==
    IF use_structured(enriched_slide)
    THEN LET generated_content == enriched_slide.generated_text.content
         IN [f \in {"slide_title", "bullets"}
                     \cup copied({"subtitle"}, fields, generated_content) |->
                CASE f = "slide_title" ->
                        Get(generated_content, "slide_title", slide.title)
                  [] f = "bullets" -> Get(generated_content, "bullets", <<>>)
                  [] OTHER -> generated_content[f]]
    ELSE [f \in {"slide_title", "bullets"} \cup ({"subtitle"} \cap DOMAIN fields) |->
            CASE f = "slide_title" ->
                    truncate(slide.title, fields["slide_title"].max_chars, FALSE)
              [] f = "bullets" ->
                    bullets_of(slide, enriched_slide, fields["bullets"].max_items,
                               fields["bullets"].max_chars_per_item)
              [] f = "subtitle" ->
                    truncate(slide.narrative, fields["subtitle"].max_chars, FALSE)]

Digit(n) == <<"0", "1", "2", "3", "4", "5", "6", "7", "8", "9">>[n + 1]

\* one numbered item built from key point number i (lines 407-417)
numbered_item(point, i) ==
    IF ":" \in Range(point)
    THEN [title |-> truncate(Before(point, ":"), ItemTitleMax, FALSE),
          description |-> truncate(After(point, ":"), ItemDescriptionMax, FALSE)]
    ELSE [title |-> truncate(<<"S", "t", "e", "p", " ", Digit(i)>>,
                             ItemTitleMax, FALSE),
          description |-> truncate(point, ItemDescriptionMax, FALSE)]

\* lines 393-403 and 407-417: the items built from the key points
points_as_numbered(slide, max_items) ==
    [i \in 1..(IF Len(slide.key_points) < max_items
               THEN Len(slide.key_points) ELSE max_items) |->
        numbered_item(slide.key_points[i], i)]

\* lines 386-389
stripped_item(title, description) ==
    [title |-> truncate(strip(title), ItemTitleMax, FALSE),
     description |-> truncate(strip(description), ItemDescriptionMax, FALSE)]

\* one numbered item parsed from line number i (lines 365-389)
parsed_item(line, i) ==
    LET step == <<"S", "t", "e", "p", " ", Digit(i)>>
        title_desc == strip(After(line, "."))
    IN IF ":" \in Range(line)
       THEN stripped_item(Before(line, ":"), After(line, ":"))
       ELSE IF "." \in Range(line)
       THEN IF "-" \in Range(title_desc)
            THEN stripped_item(Before(title_desc, "-"), After(title_desc, "-"))
            ELSE stripped_item(step, title_desc)
       ELSE stripped_item(step, line)

\* the lines longer than 10 characters only
nonblank_lines_longOnly(generated_content) ==
    LET kept == SelectSeq(split(generated_content, NewLine),
                          LAMBDA line : long_enough(strip(line)))
    IN [i \in 1..Len(kept) |-> strip(kept[i])]

\* [line.strip() for line in generated_content.split('\n') if line.strip()]
nonblank_lines(generated_content) ==
    LET kept == SelectSeq(split(generated_content, NewLine),
                          LAMBDA line : strip(line) # <<>>)
    IN [i \in 1..Len(kept) |-> strip(kept[i])]

\* lines 361-403: the parsed items, or those of the key points when the
\* parse gave fewer than two
legacy_numbered(slide, generated_content, max_items) ==
    LET lines == nonblank_lines(generated_content)
        numbered_items ==
            [i \in 1..(IF Len(lines) < max_items THEN Len(lines) ELSE max_items) |->
                parsed_item(lines[i], i)]
    IN IF too_few(numbered_items)
       THEN points_as_numbered(slide, max_items)
       ELSE numbered_items

\* L06 (lines 335-427)
_map_numbered_list(slide, fields, presentation, enriched_slide) ==
    IF use_structured(enriched_slide)
    THEN LET generated_content == enriched_slide.generated_text.content
         IN [f \in {"slide_title", "numbered_items"}
                     \cup copied({"subtitle"}, fields, generated_content) |->
                CASE f = "slide_title" ->
                        Get(generated_content, "slide_title", slide.title)
                  [] f = "numbered_items" ->
                        Get(generated_content, "numbered_items", <<>>)
                  [] OTHER -> generated_content[f]]
    ELSE LET max_items == fields["numbered_items"].max_items
         IN [f \in {"slide_title", "numbered_items"}
                     \cup ({"subtitle"} \cap DOMAIN fields) |->
                CASE f = "slide_title" ->
                        truncate(slide.title, fields["slide_title"].max_chars, FALSE)
                  [] f = "numbered_items" ->
                        IF has_generated(enriched_slide)
                        THEN legacy_numbered(slide,
                                enriched_slide.generated_text.content, max_items)
                        ELSE points_as_numbered(slide, max_items)
                  [] f = "subtitle" ->
                        truncate(slide.narrative, fields["subtitle"].max_chars, FALSE)]

\* lines 437-443
image_placeholder(slide) ==
    IF slide.visuals_needed # <<>>
    THEN generate_placeholder(slide.visuals_needed, "IMAGE")
    ELSE IF slide.diagrams_needed # <<>>
    THEN generate_placeholder(slide.diagrams_needed, "DIAGRAM")
    ELSE <<"PLACEHOLDER: Professional image related to slide content">>

\* L10 (lines 429-477)
_map_image_text(slide, fields, presentation, enriched_slide) ==
    IF use_structured(enriched_slide)
    THEN LET generated_content == enriched_slide.generated_text.content
         IN [f \in {"slide_title", "image", "text_content"}
                     \cup copied({"subtitle"}, fields, generated_content) |->
                CASE f = "slide_title" ->
                        Get(generated_content, "slide_title", slide.title)
                  [] f = "image" -> image_placeholder(slide)
                  [] f = "text_content" ->
                        Get(generated_content, "text_content", <<>>)
                  [] OTHER -> generated_content[f]]
    ELSE [f \in {"slide_title", "image", "text_content"}
                  \cup ({"subtitle"} \cap DOMAIN fields) |->
            CASE f = "slide_title" ->
                    truncate(slide.title, fields["slide_title"].max_chars, FALSE)
              [] f = "image" -> image_placeholder(slide)
              [] f = "text_content" ->
                    truncate(main_text_of(slide, enriched_slide),
                             fields["text_content"].max_chars, FALSE)
              [] f = "subtitle" ->
                    truncate(Take(slide.narrative, NarrativeSubtitleCut),
                             fields["subtitle"].max_chars, FALSE)]

\* lines 487-491
chart_placeholder(slide) ==
    IF slide.analytics_needed # <<>>
    THEN generate_placeholder(slide.analytics_needed, "CHART")
    ELSE <<"PLACEHOLDER: Data visualization for this slide">>

\* L17 (lines 479-554)
_map_chart_insights(slide, fields, presentation, enriched_slide) ==
    IF use_structured(enriched_slide)
    THEN LET generated_content == enriched_slide.generated_text.content
         IN [f \in {"slide_title", "chart_url", "key_insights"}
                     \cup copied({"subtitle", "summary"}, fields, generated_content) |->
                CASE f = "slide_title" ->
                        Get(generated_content, "slide_title", slide.title)
                  [] f = "chart_url" -> chart_placeholder(slide)
                  [] f = "key_insights" ->
                        Get(generated_content, "key_insights", <<>>)
                  [] OTHER -> generated_content[f]]
    ELSE [f \in {"slide_title", "chart_url", "key_insights"}
                  \cup ({"subtitle", "summary"} \cap DOMAIN fields) |->
            CASE f = "slide_title" ->
                    truncate(slide.title, fields["slide_title"].max_chars, FALSE)
              [] f = "chart_url" -> chart_placeholder(slide)
              [] f = "key_insights" ->
                    bullets_of(slide, enriched_slide,
                               fields["key_insights"].max_items,
                               fields["key_insights"].max_chars_per_item)
              [] f = "subtitle" ->
                    truncate(slide.narrative, fields["subtitle"].max_chars, FALSE)
              [] f = "summary" ->
                    truncate(summary_of(slide), fields["summary"].max_chars, FALSE)]

\* every other layout (lines 556-605)
_map_generic(slide, fields, enriched_slide) ==
    IF use_structured(enriched_slide)
    THEN enriched_slide.generated_text.content
    ELSE [f \in {"slide_title", "subtitle", "bullets"} \cap DOMAIN fields |->
            CASE f = "slide_title" ->
                    truncate(slide.title, fields["slide_title"].max_chars, FALSE)
              [] f = "subtitle" ->
                    truncate(slide.narrative, fields["subtitle"].max_chars, FALSE)
              [] f = "bullets" ->
                    bullets_of(slide, enriched_slide, fields["bullets"].max_items,
                               fields["bullets"].max_chars_per_item)]

\* lines 165-193
_map_content_to_layout(slide, layout_id, content_fields, presentation, enriched_slide) ==
    CASE layout_id = "L01" ->
            _map_title_slide(slide, content_fields, presentation, enriched_slide)
      [] layout_id = "L02" ->
            _map_section_divider(slide, content_fields, presentation, enriched_slide)
      [] layout_id = "L03" ->
            _map_closing_slide(slide, content_fields, presentation, enriched_slide)
      [] layout_id = "L04" ->
            _map_text_summary(slide, content_fields, presentation, enriched_slide)
      [] layout_id = "L05" ->
            _map_bullet_list(slide, content_fields, presentation, enriched_slide)
      [] layout_id = "L06" ->
            _map_numbered_list(slide, content_fields, presentation, enriched_slide)
      [] layout_id = "L10" ->
            _map_image_text(slide, content_fields, presentation, enriched_slide)
      [] layout_id = "L17" ->
            _map_chart_insights(slide, content_fields, presentation, enriched_slide)
      [] OTHER -> _map_generic(slide, content_fields, enriched_slide)

\* lines 136-163
transform_slide(slide, layout_id, presentation, enriched_slide) ==
    [layout |-> layout_id,
     content |-> _map_content_to_layout(slide, layout_id,
                    get_schema(layout_id).content_schema, presentation,
                    enriched_slide)]

NoOutput == [layout |-> "None", content |-> <<>>]

\* One call transform_slide(slide, layout_id, presentation, enriched_slide).
TransformSlide ==
    /\ tr_pc = "start"
    /\ tr_output' = transform_slide(tr_slide, tr_layout, Presentation, tr_enriched)
    /\ tr_pc' = "done"
    /\ UNCHANGED <<tr_layout, tr_slide, tr_enriched, tcVars, rqVars, procVars, wfVars,
                   clVars>>

(***************************************************************************)
(* The request sent to the Text Service for one slide:                     *)
(* DirectorAgent._convert_schema_request_to_v1 and                         *)
(* _build_constraints_from_schema (director.py lines 718-790), then        *)
(* TextServiceClient._transform_request (text_service_client.py lines      *)
(* 120-159). Texts are strings here; dicts are functions from their keys.  *)
(***************************************************************************)
\* field_spec.get('max_items', 5), field_spec.get('max_chars_per_item', 100)
DefaultMaxItems == 5
DefaultCharsPerItem == 100

\* total_chars or 800
DefaultMaxCharacters == 800

\* constraints.get("word_count", 150)
DefaultWordCount == 150

\* Field specifications of a layout schema, with and without the optional
\* keys.
RequestFieldSpecs ==
    {[type |-> "string", max_chars |-> 60],
     [type |-> "string", max_chars |-> 0],
     [type |-> "string"],
     [type |-> "array", max_items |-> 3, max_chars_per_item |-> 20],
     [type |-> "array"],
     [type |-> "array_of_objects", max_items |-> 4]}

\* Layout schemas of at most two fields, the empty schema included.
RequestSchemas ==
    UNION {[names -> RequestFieldSpecs] : names \in SUBSET {"slide_title", "items"}}

\* content_guidance of a schema request, with and without its keys
Guidances ==
    {[key_points |-> <<"P1", "P2">>, narrative |-> "Overview.",
      presentation_context |-> [main_title |-> "Deck one",
                                overall_theme |-> "Theme"]],
     [key_points |-> <<>>, narrative |-> "",
      presentation_context |-> [main_title |-> "Deck one"]],
     [narrative |-> "Overview."]}

\* The schema request of build_content_request with the session tracking of
\* lines 700-701 added.
SchemaRequests ==
    {[presentation_id |-> "session_1", slide_id |-> "slide_001",
      slide_number |-> 1, content_guidance |-> g, layout_schema |-> s] :
        g \in Guidances, s \in RequestSchemas}

\* what one field adds to total_chars (lines 768-774)
field_chars(field_spec) ==
    IF field_spec.type = "string" /\ "max_chars" \in DOMAIN field_spec
    THEN field_spec.max_chars
    ELSE IF field_spec.type = "array"
    THEN Get(field_spec, "max_items", DefaultMaxItems)
            * Get(field_spec, "max_chars_per_item", DefaultCharsPerItem)
    ELSE 0

\* total_chars after the loop over the fields in names
RECURSIVE total_chars(_, _)
total_chars(layout_schema, names) ==
    IF names = {} THEN 0
    ELSE LET f == CHOOSE f \in names : TRUE
         IN field_chars(layout_schema[f]) + total_chars(layout_schema, names \ {f})

\* lines 779-784
format_type(layout_schema) ==
    IF \E f \in DOMAIN layout_schema : layout_schema[f].type = "array"
    THEN "bullet_points"
    ELSE IF \E f \in DOMAIN layout_schema :
                layout_schema[f].type = "array_of_objects"
    THEN "numbered_list"
    ELSE "paragraph"

\* lines 750-790
_build_constraints_from_schema(layout_schema) ==
    LET total == total_chars(layout_schema, DOMAIN layout_schema)
    IN [max_characters |-> IF total # 0 THEN total ELSE DefaultMaxCharacters,
        tone |-> "professional",
        format |-> format_type(layout_schema)]

\* lines 718-748
_convert_schema_request_to_v1(schema_request) ==
    LET guidance == schema_request.content_guidance
        context == Get(guidance, "presentation_context", <<>>)
    IN [presentation_id |-> Get(schema_request, "presentation_id", "default"),
        slide_id |-> schema_request.slide_id,
        slide_number |-> schema_request.slide_number,
        topics |-> Get(guidance, "key_points", <<>>),
        narrative |-> Get(guidance, "narrative", ""),
        context |->
            [presentation_context |->
                Get(context, "main_title", "") \o " - "
                    \o Get(context, "overall_theme", ""),
             slide_context |-> Get(guidance, "narrative", ""),
             previous_slides |-> <<>>],
        constraints |-> _build_constraints_from_schema(schema_request.layout_schema)]

\* TextServiceClient._transform_request (text_service_client.py lines 120-159)
_transform_request(orchestrator_request) ==
    LET context == Get(orchestrator_request, "context", <<>>)
        constraints == Get(orchestrator_request, "constraints", <<>>)
    IN [presentation_id |->
            Get(orchestrator_request, "presentation_id", "default_pres"),
        slide_id |-> Get(orchestrator_request, "slide_id", "unknown"),
        slide_number |-> Get(orchestrator_request, "slide_number", 1),
        topics |-> Get(orchestrator_request, "topics", <<>>),
        narrative |-> Get(orchestrator_request, "narrative", ""),
        context |->
            [presentation_context |-> Get(context, "presentation_context", ""),
             slide_context |-> Get(context, "slide_context", ""),
             previous_slides |-> Get(context, "previous_slides", <<>>)],
        constraints |->
            [word_count |-> Get(constraints, "word_count", DefaultWordCount),
             tone |-> Get(constraints, "tone", "professional"),
             format |-> Get(constraints, "format", "paragraph")]]

NoRequest == <<>>

\* _generate_slide_text from line 709 to the POST of generate: the schema
\* request is converted and the client transforms it into the body it posts.
GenerateSlideText ==
    /\ rq_pc = "start"
    /\ rq_v1_request' = _convert_schema_request_to_v1(rq_schema_request)
    /\ rq_service_request' =
          _transform_request(_convert_schema_request_to_v1(rq_schema_request))
    /\ rq_pc' = "posted"
    /\ UNCHANGED <<rq_schema_request, tcVars, trVars, procVars, wfVars, clVars>>

(***************************************************************************)
(* Specifications                                                          *)
(***************************************************************************)
TruncateIdle ==
    /\ tc_pc = "off"
    /\ tc_text = <<>>
    /\ tc_max_chars = 0
    /\ tc_add_ellipsis = FALSE
    /\ tc_result = <<>>
    /\ tc_again = <<>>

TransformIdle ==
    /\ tr_pc = "off"
    /\ tr_layout = "L01"
    /\ tr_slide = ContentSlide(<<>>, <<>>, <<>>, <<>>, <<>>, <<>>)
    /\ tr_enriched = NoEnrichedSlide
    /\ tr_output = NoOutput

RequestIdle ==
    /\ rq_pc = "off"
    /\ rq_schema_request = NoRequest
    /\ rq_v1_request = NoRequest
    /\ rq_service_request = NoRequest

PureIdle == TruncateIdle /\ TransformIdle /\ RequestIdle

WorkflowIdle ==
    /\ wf_state = "PROVIDE_GREETING"
    /\ wf_query = NoQuery
    /\ wf_visited = {"PROVIDE_GREETING"}

ClassifyIdle ==
    /\ cl_pc = "off"
    /\ cl_context = [kind |-> "dict", has_state |-> FALSE,
                     current_state |-> "NOT_A_STATE"]
    /\ cl_message = ""
    /\ cl_prompt = [current_state |-> "", user_message |-> ""]
    /\ cl_failure = NoError
    /\ cl_result = NoResult
    /\ cl_raised = NoError

ProcessIdle ==
    /\ deck_builder_enabled = TRUE
    /\ has_schema_manager = TRUE
    /\ text_service_enabled = TRUE
    /\ current_state = "PROVIDE_GREETING"
    /\ session_strawman = NoStrawman
    /\ pc = "off"
    /\ strawman = <<>>
    /\ main_title = NoTitle
    /\ idx = 1
    /\ enriched_slides = <<>>
    /\ successful_slides = 0
    /\ failed_slides = 0
    /\ response = NoResponse
    /\ raised = NoError
    /\ model_calls = <<>>
    /\ model_error = NoError
    /\ layout_errors = <<>>
    /\ selections = <<>>
    /\ text_calls = <<>>
    /\ text_in_flight = {}
    /\ text_failures = {}
    /\ render_calls = <<>>
    /\ render_outcomes = <<>>

\* The strawman an earlier GENERATE_STRAWMAN left in the session: every slide
\* carries the layout its position or slide_type dictates, middle slides of
\* other types the layout the model chose.
SelectedStrawmen ==
    UNION {{[present |-> TRUE, main_title |-> "Deck one",
             slides |-> [i \in 1..n |->
                LET m == mandatory_layout(Slide(i, f[i], NoLayout, NoReasoning),
                                          SlidePosition(i, n))
                    sel == IF m.found THEN m.selection
                           ELSE LayoutSelection("L04", "semantic match", 90)
                IN Slide(i, f[i], sel.layout_id, sel.reasoning)]] :
                  f \in [1..n -> SlideTypes]} : n \in 1..MaxSlides}

\* A DirectorAgent as __init__ leaves it, handed one StateContext.  The
\* schema manager exists whenever the deck-builder is enabled (lines 93-107).
\* Only CONTENT_GENERATION reads the session's strawman; in REFINE_STRAWMAN
\* the session holds the strawman being refined.
Init ==
    /\ deck_builder_enabled \in BOOLEAN
    /\ has_schema_manager \in BOOLEAN
    /\ deck_builder_enabled => has_schema_manager
    /\ text_service_enabled \in BOOLEAN
    /\ current_state \in Stages \cup {"LAYOUT_GENERATION"}
    /\ session_strawman \in
          CASE current_state = "CONTENT_GENERATION" ->
                  {NoStrawman} \cup SessionStrawmen
            [] current_state = "REFINE_STRAWMAN" ->
                  {NoStrawman} \cup SelectedStrawmen
            [] OTHER -> {NoStrawman}
    /\ pc = "start"
    /\ strawman = <<>>
    /\ main_title = NoTitle
    /\ idx = 1
    /\ enriched_slides = <<>>
    /\ successful_slides = 0
    /\ failed_slides = 0
    /\ response = NoResponse
    /\ raised = NoError
    /\ model_calls = <<>>
    /\ model_error = NoError
    /\ layout_errors = <<>>
    /\ selections = <<>>
    /\ text_calls = <<>>
    /\ text_in_flight = {}
    /\ text_failures = {}
    /\ render_calls = <<>>
    /\ render_outcomes = <<>>
    /\ WorkflowIdle
    /\ ClassifyIdle
    /\ PureIdle

Next ==
    \/ Dispatch
    \/ \E e \in AgentErrors : AgentFail(e)
    \/ AgentReturnSimple
    \/ \E sm \in AgentStrawmen, title \in AgentTitles : AgentReturnStrawman(sm, title)
    \/ LayoutLoopEnd
    \/ LayoutMandatory
    \/ LayoutNoManager
    \/ LayoutCall
    \/ \E sel \in AISelections : LayoutReturn(sel)
    \/ \E e \in LayoutErrors : LayoutFail(e)
    \/ DeckDisabled
    \/ DeckTransformFail
    \/ DeckCall
    \/ DeckReturn
    \/ DeckFail
    \/ TextLoopEnd
    \/ TextDisabled
    \/ TextNoManager
    \/ TextRequestFail
    \/ TextCall
    \/ TextReturn("text")
    \/ TextFail
    \/ EnrichedDisabled
    \/ EnrichedTransformFail
    \/ EnrichedCall
    \/ EnrichedReturn
    \/ EnrichedFail
    \/ FallbackTransformFail
    \/ FallbackCall
    \/ FallbackReturn
    \/ FallbackFail

Spec == Init /\ [][Next]_vars

\* process is a coroutine the event loop keeps running, and every external
\* call it awaits eventually returns or fails: some step of process is taken
\* as long as one is possible.
\* Only CONTENT_GENERATION reads the session's strawman (line 422), so the
\* other stages are started without one.
InitLive == Init /\ (current_state # "CONTENT_GENERATION" => session_strawman = NoStrawman)

SpecLive == InitLive /\ [][Next]_vars /\ WF_vars(Next)

InitWorkflow ==
    /\ ProcessIdle
    /\ ClassifyIdle
    /\ PureIdle
    /\ wf_state = "PROVIDE_GREETING"
    /\ wf_query = NoQuery
    /\ wf_visited = {"PROVIDE_GREETING"}

NextWorkflow ==
    \/ \E s \in QueryStates, t \in QueryStates : ValidateQuery(s, t)
    \/ \E t \in QueryStates : ApplyTransition(t)
    \/ \E intent \in IntentTypes : IntentTransition(intent)

SpecWorkflow == InitWorkflow /\ [][NextWorkflow]_vars

InitClassify ==
    /\ ProcessIdle
    /\ WorkflowIdle
    /\ PureIdle
    /\ cl_pc = "start"
    /\ cl_context \in Contexts
    /\ cl_message \in Messages
    /\ cl_prompt = [current_state |-> "", user_message |-> ""]
    /\ cl_failure = NoError
    /\ cl_result = NoResult
    /\ cl_raised = NoError

NextClassify ==
    \/ ClassifyStart
    \/ \E intent \in RouterOutputs : RouterReturn(intent)
    \/ \E e \in RunFailures : RouterFail(e)

SpecClassify == InitClassify /\ [][NextClassify]_vars

\* truncate is called with a text, a budget max_chars >= 0 and the flag.
InitTruncate ==
    /\ ProcessIdle
    /\ WorkflowIdle
    /\ ClassifyIdle
    /\ TransformIdle
    /\ RequestIdle
    /\ tc_pc = "start"
    /\ tc_text \in Texts \cup LongTexts
    /\ tc_max_chars = 0
    /\ tc_add_ellipsis = FALSE
    /\ tc_result = <<>>
    /\ tc_again = <<>>

NextTruncate ==
    \E max_chars \in 0..LongMaxChars, add_ellipsis \in BOOLEAN :
        Truncate(max_chars, add_ellipsis)

SpecTruncate == InitTruncate /\ [][NextTruncate]_vars

\* transform_slide is called for a catalog layout with a slide and possibly
\* an enriched slide.
InitTransform ==
    /\ ProcessIdle
    /\ WorkflowIdle
    /\ ClassifyIdle
    /\ TruncateIdle
    /\ RequestIdle
    /\ tr_pc = "start"
    /\ tr_layout \in Layouts
    /\ tr_slide \in ContentSlides
    /\ tr_enriched \in EnrichedInputs(tr_layout)
    /\ tr_output = NoOutput

NextTransform == TransformSlide

SpecTransform == InitTransform /\ [][NextTransform]_vars

\* _generate_slide_text has built the schema request of one slide.
InitRequest ==
    /\ ProcessIdle
    /\ WorkflowIdle
    /\ ClassifyIdle
    /\ TruncateIdle
    /\ TransformIdle
    /\ rq_pc = "start"
    /\ rq_schema_request \in SchemaRequests
    /\ rq_v1_request = NoRequest
    /\ rq_service_request = NoRequest

NextRequest == GenerateSlideText

SpecRequest == InitRequest /\ [][NextRequest]_vars

(***************************************************************************)
(* Properties                                                              *)
(***************************************************************************)
ExpectedNext(s) ==
    CASE s = "PROVIDE_GREETING" -> {"ASK_CLARIFYING_QUESTIONS"}
      [] s = "ASK_CLARIFYING_QUESTIONS" -> {"CREATE_CONFIRMATION_PLAN"}
      [] s = "CREATE_CONFIRMATION_PLAN" ->
            {"GENERATE_STRAWMAN", "ASK_CLARIFYING_QUESTIONS",
             "CREATE_CONFIRMATION_PLAN"}
      [] s = "GENERATE_STRAWMAN" -> {"REFINE_STRAWMAN", "CONTENT_GENERATION"}
      [] s = "REFINE_STRAWMAN" -> {"REFINE_STRAWMAN", "CONTENT_GENERATION"}
      [] s = "CONTENT_GENERATION" -> {}

\* C1: for every stage s, get_next_states(s) holds exactly the entries of
\* the fixed table for s, and for all stages s and t validate_transition(s, t)
\* is true iff t is among get_next_states(s).
C1_TransitionTable ==
    (wf_query.asked /\ wf_query.from \in Stages) =>
        /\ Range(wf_query.next) = ExpectedNext(wf_query.from)
        /\ wf_query.to \in Stages =>
              (wf_query.valid <=> wf_query.to \in Range(wf_query.next))

C1_Witness ==
    /\ wf_query.asked
    /\ wf_query.from = "CREATE_CONFIRMATION_PLAN"
    /\ wf_query.to = "ASK_CLARIFYING_QUESTIONS"
    /\ wf_query.valid

\* The CONTENT_GENERATION loop has ended and the enriched presentation exists.
EnrichedBuilt ==
    /\ current_state = "CONTENT_GENERATION"
    /\ session_strawman.present
    /\ pc \in {"enriched_ready", "enriched_run", "fallback", "fallback_run",
               "returned", "raised"}

\* C2: ContentGeneration over N slides of which exactly K fail text
\* generation yields successful_slides = N-K, failed_slides = K and exactly N
\* enriched slides, entry i belonging to slide i of the strawman and flagged
\* has_text_failure exactly when slide i failed.
C2_EnrichedCounts ==
    EnrichedBuilt =>
        /\ successful_slides = Len(strawman) - Cardinality(text_failures)
        /\ failed_slides = Cardinality(text_failures)
        /\ Len(enriched_slides) = Len(strawman)
        /\ \A i \in 1..Len(enriched_slides) :
              /\ i <= Len(strawman)
              /\ enriched_slides[i].original_slide = strawman[i]
              /\ enriched_slides[i].slide_id = strawman[i].slide_id
              /\ enriched_slides[i].has_text_failure <=> i \in text_failures
        /\ response.type = "EnrichedPresentationStrawman" =>
              /\ response.enriched_slides = enriched_slides
              /\ response.successful_slides = successful_slides
              /\ response.failed_slides = failed_slides

C2_Witness ==
    /\ EnrichedBuilt
    /\ Len(strawman) = 3
    /\ text_failures = {2}
    /\ Len(text_calls) = 3
    /\ [k \in 1..3 |-> text_calls[k].slide_id] = <<1, 2, 3>>
    /\ response.type = "EnrichedPresentationStrawman"

\* C3 (as claimed): with the Text Service enabled, the loop of
\* ContentGeneration calls the text-generation service exactly once per
\* slide, in slide order, with at most one call in flight.
C3_OneCallPerSlide ==
    /\ Cardinality(text_in_flight) <= 1
    /\ (EnrichedBuilt /\ text_service_enabled) =>
          /\ Len(text_calls) = Len(strawman)
          /\ \A i \in 1..Len(strawman) : text_calls[i].slide_id = strawman[i].slide_id

\* C4: ContentGeneration without a strawman in the session raises the "no
\* strawman found" error at once: no text-generation call, no rendering
\* call, no enriched slide and no response.
C4_MissingStrawman ==
    (current_state = "CONTENT_GENERATION" /\ ~session_strawman.present
        /\ pc # "start") =>
        /\ pc = "raised"
        /\ raised = "ValueError: No strawman found in session for content generation"
        /\ response = NoResponse
        /\ text_calls = <<>>
        /\ text_in_flight = {}
        /\ render_calls = <<>>
        /\ render_outcomes = <<>>
        /\ enriched_slides = <<>>
        /\ model_calls = <<>>

C4_Witness ==
    /\ current_state = "CONTENT_GENERATION"
    /\ ~session_strawman.present
    /\ pc = "raised"

StrawmanStages == {"GENERATE_STRAWMAN", "REFINE_STRAWMAN"}

LastOutcome == render_outcomes[Len(render_outcomes)]

\* C5: in GenerateStrawman and RefineStrawman a failed transform or a failed
\* rendering call does not raise: the stage returns the strawman it
\* produced; a successful rendering returns a presentation_url response
\* with the URL and that same strawman.
C5_StrawmanRenderFallback ==
    (current_state \in StrawmanStages /\ render_outcomes # <<>>) =>
        /\ pc = "returned"
        /\ raised = NoError
        /\ response.strawman = strawman
        /\ IF LastOutcome = "ok"
           THEN /\ response.type = "presentation_url"
                /\ {"url", "strawman"} \subseteq response.keys
                /\ response.url = Len(render_calls)
                /\ render_calls[response.url] =
                      transform_presentation(PresentationStrawman, NoEnriched)
           ELSE /\ response.type = "PresentationStrawman"
                /\ response.keys = {}

C5_Witness ==
    /\ current_state = "GENERATE_STRAWMAN"
    /\ render_outcomes = <<"api_failed">>
    /\ pc = "returned"
    /\ Len(strawman) = 3
    /\ response.type = "PresentationStrawman"

Finished == pc \in {"returned", "raised"}

\* C6 (as claimed): when every call to the rendering service fails, the stage
\* still returns successfully, with the un-rendered artifact (the strawman,
\* or the enriched strawman in ContentGeneration).
C6_RenderFailureNeverFatal ==
    (/\ Finished
     /\ render_outcomes # <<>>
     /\ \A k \in 1..Len(render_outcomes) : render_outcomes[k] = "api_failed") =>
        /\ pc = "returned"
        /\ response.type = IF current_state = "CONTENT_GENERATION"
                           THEN "EnrichedPresentationStrawman"
                           ELSE "PresentationStrawman"

\* C7 (as claimed): when sending the enriched presentation fails, the
\* unenriched strawman is sent instead and the response returned carries
\* content_generated = false; content_generated is true only when the
\* enriched presentation was rendered.
C7_FallbackUnenriched ==
    /\ (/\ current_state = "CONTENT_GENERATION"
        /\ Finished
        /\ render_outcomes # <<>>
        /\ render_outcomes[1] = "api_failed") =>
           /\ render_calls # <<>>
           /\ ~render_calls[Len(render_calls)].with_enriched
           /\ pc = "returned"
           /\ "content_generated" \in response.keys
           /\ ~response.content_generated
    /\ (pc = "returned" /\ response.content_generated) =>
           /\ render_outcomes = <<"ok">>
           /\ render_calls[response.url].with_enriched

\* C8: when the stage's own model call fails, the same exception leaves
\* process unchanged, no response is returned, and no layout selection,
\* rendering call or text-generation call is made.
C8_ModelErrorPropagates ==
    model_error # NoError =>
        /\ pc = "raised"
        /\ raised = model_error
        /\ response = NoResponse
        /\ selections = <<>>
        /\ model_calls = <<AgentOf(current_state)>>
        /\ render_calls = <<>>
        /\ render_outcomes = <<>>
        /\ text_calls = <<>>
        /\ enriched_slides = <<>>

C8_Witness ==
    /\ model_error = "MAX_TOKENS"
    /\ current_state = "GENERATE_STRAWMAN"
    /\ pc = "raised"

\* C9: classify never raises; whenever building the prompt or the model call
\* fails it returns Ask_Help_Or_Question with confidence 0.5 and no
\* extracted info.
C9_ClassifySafeDefault ==
    /\ cl_pc # "raised"
    /\ cl_raised = NoError
    /\ cl_failure # NoError =>
          /\ cl_pc = "returned"
          /\ cl_result = UserIntent("Ask_Help_Or_Question", 50, NoInfo)

C9_Witness ==
    /\ cl_failure = "AttributeError"
    /\ cl_context.kind = "not_a_dict"
    /\ cl_pc = "returned"

LayoutModelCalls ==
    Cardinality({k \in 1..Len(model_calls) : model_calls[k] = "layout_selection"})

\* C10: layout selection applies its positional rules in priority order and
\* without the model: position first gives L01, otherwise position last gives
\* L03, otherwise slide_type section_divider gives L02, each with
\* confidence 1.0.
C10_MandatoryLayouts ==
    /\ \A k \in 1..Len(selections) :
          LET r == selections[k] IN
          /\ r.position = "first" =>
                /\ r.selection.layout_id = "L01"
                /\ r.selection.confidence = 100
                /\ ~r.used_model
          /\ r.position = "last" =>
                /\ r.selection.layout_id = "L03"
                /\ r.selection.confidence = 100
                /\ ~r.used_model
          /\ (r.position = "middle" /\ r.slide_type = "section_divider") =>
                /\ r.selection.layout_id = "L02"
                /\ r.selection.confidence = 100
                /\ ~r.used_model
    /\ LayoutModelCalls =
          Cardinality({k \in 1..Len(selections) : selections[k].used_model})
            + (IF pc = "layout_run" THEN 1 ELSE 0)

C10_Witness ==
    /\ Len(selections) = 3
    /\ \A k \in 1..3 : selections[k].slide_type = "section_divider"
    /\ selections[1].selection.layout_id = "L01"
    /\ selections[2].selection.layout_id = "L02"
    /\ selections[3].selection.layout_id = "L03"

GenerateDone == current_state = "GENERATE_STRAWMAN" /\ pc = "returned"

\* C12: when GENERATE_STRAWMAN completes for a strawman of two or more
\* slides, the first slide has layout L01 and the last has layout L03,
\* whatever the slide types, the layout_ids the agent delivered and the
\* outcomes of the layout-selection model calls.
C12_FirstAndLastLayouts ==
    (GenerateDone /\ Len(strawman) >= 2) =>
        /\ strawman[1].layout_id = "L01"
        /\ strawman[Len(strawman)].layout_id = "L03"
        /\ response.strawman[1].layout_id = "L01"
        /\ response.strawman[Len(strawman)].layout_id = "L03"

C12_Witness ==
    /\ GenerateDone
    /\ Len(strawman) = MaxSlides
    /\ \A i \in 1..MaxSlides : strawman[i].slide_type = "section_divider"
    /\ response.strawman[1].layout_id = "L01"
    /\ response.strawman[MaxSlides].layout_id = "L03"
    /\ render_outcomes = <<"api_failed">>

\* C13: in GENERATE_STRAWMAN the rendering service is reached only after the
\* layout loop has handled every slide: when the strawman is transformed and
\* sent, and in the strawman the stage returns, every slide has a layout_id
\* and a layout_selection_reasoning, and the payload uses those layout_ids.
C13_LayoutsBeforeRendering ==
    current_state = "GENERATE_STRAWMAN" =>
        /\ (pc \in {"deck_builder", "deck_run", "returned"}) =>
              /\ Len(selections) = Len(strawman)
              /\ \A i \in 1..Len(strawman) :
                    /\ strawman[i].layout_id # NoLayout
                    /\ strawman[i].layout_selection_reasoning # NoReasoning
                    /\ strawman[i].layout_id = selections[i].selection.layout_id
        /\ pc = "returned" => response.strawman = strawman
        /\ \A k \in 1..Len(render_calls) :
              /\ Len(selections) = Len(strawman)
              /\ Len(render_calls[k].slides) = Len(strawman)
              /\ \A i \in 1..Len(strawman) :
                    render_calls[k].slides[i].layout = selections[i].selection.layout_id

C13_Witness ==
    /\ current_state = "GENERATE_STRAWMAN"
    /\ pc = "deck_run"
    /\ Len(render_calls) = 1
    /\ Len(strawman) = MaxSlides
    /\ strawman[2].layout_id = "L07"
    /\ strawman[2].layout_selection_reasoning = "semantic match"

\* C14: in REFINE_STRAWMAN layout selection is run for every slide of the
\* refined strawman before it is handed to the rendering service, so every
\* slide of the strawman the stage returns has a layout_id that layout
\* selection assigned.
C14_RefineSelectsLayouts ==
    (current_state = "REFINE_STRAWMAN"
        /\ pc \in {"deck_builder", "deck_run", "returned"}) =>
        /\ Len(selections) = Len(strawman)
        /\ \A i \in 1..Len(strawman) :
              /\ strawman[i].layout_id # NoLayout
              /\ strawman[i].layout_id = selections[i].selection.layout_id

\* the slides of `sm` whose slide_id is also in the session's strawman
CarriedSlides(sm) ==
    {i \in 1..Len(sm) : i <= Len(session_strawman.slides)}

\* C15: a slide's layout_id is null until layout selection has run on it,
\* and once GENERATE_STRAWMAN has set it nothing changes it afterwards:
\* REFINE_STRAWMAN and CONTENT_GENERATION leave every slide with the
\* layout_id it had and never run layout selection again.
C15_LayoutIdSetOnce ==
    /\ current_state = "GENERATE_STRAWMAN" =>
          \A i \in 1..Len(strawman) :
             i > Len(selections) => strawman[i].layout_id = NoLayout
    /\ (current_state = "REFINE_STRAWMAN" /\ session_strawman.present) =>
          \A i \in CarriedSlides(strawman) :
             strawman[i].layout_id = session_strawman.slides[i].layout_id
    /\ (current_state = "CONTENT_GENERATION" /\ pc \notin {"start", "raised"}) =>
          \A i \in CarriedSlides(strawman) :
             strawman[i].layout_id = session_strawman.slides[i].layout_id
    /\ current_state # "GENERATE_STRAWMAN" => LayoutModelCalls = 0
    /\ \A j, k \in 1..Len(selections) :
          selections[j].slide_id = selections[k].slide_id => j = k

\* C16: CONTENT_GENERATION is terminal: validate_transition from it is false
\* for every target, so a caller that applies only validated transitions
\* stays in CONTENT_GENERATION once it is there.
C16_ContentGenerationTerminal ==
    /\ []((wf_query.asked /\ wf_query.from = "CONTENT_GENERATION") =>
             (~wf_query.valid /\ wf_query.next = <<>>))
    /\ [][wf_state = "CONTENT_GENERATION" =>
             wf_state' = "CONTENT_GENERATION"]_vars

C16_Witness ==
    /\ wf_state = "CONTENT_GENERATION"
    /\ wf_query.asked
    /\ wf_query.from = "CONTENT_GENERATION"
    /\ wf_query.to = "REFINE_STRAWMAN"
    /\ ~wf_query.valid

IsPrefix(p, text) == Len(p) <= Len(text) /\ p = SubSeq(text, 1, Len(p))

EndsWithEllipsis(text) ==
    Len(text) >= 3 /\ SubSeq(text, Len(text) - 2, Len(text)) = Ellipsis

\* C18: truncate(text, max_chars) is at most max_chars long, with
\* add_ellipsis at most max_chars + 3 long, and a text that fits is returned
\* unchanged.
C18_TruncateLength ==
    tc_pc = "done" =>
        /\ ~tc_add_ellipsis => Len(tc_result) <= tc_max_chars
        /\ tc_add_ellipsis => Len(tc_result) <= tc_max_chars + 3
        /\ Len(tc_text) <= tc_max_chars => tc_result = tc_text

C18_Witness ==
    /\ tc_pc = "done"
    /\ tc_add_ellipsis
    /\ tc_max_chars = 4
    /\ Len(tc_text) = MaxTextLen
    /\ Len(tc_result) = tc_max_chars + 3

\* C19: truncate(truncate(t, n), n) = truncate(t, n) for every text t and
\* every n >= 0.
C19_TruncateIdempotent ==
    (tc_pc = "done" /\ ~tc_add_ellipsis) => tc_again = tc_result

C19_Witness ==
    /\ tc_pc = "done"
    /\ ~tc_add_ellipsis
    /\ tc_max_chars = 7
    /\ tc_text = <<"a", " ", "a", "a", "a", ".", " ", "a">>
    /\ tc_result = <<"a", " ", "a", "a", "a", ".">>
    /\ tc_again = tc_result

SentenceCut ==
    /\ Len(tc_text) > tc_max_chars
    /\ \E k \in 1..Len(Delimiters) :
          AboveSeventyPercent(rfind(Take(tc_text, tc_max_chars), Delimiters[k]),
                              tc_max_chars)

C17_PassThrough ==
    (tr_pc = "done" /\ use_structured(tr_enriched)) =>
        \A f \in DOMAIN tr_enriched.generated_text.content
                   \cap FieldNames(tr_layout) :
            /\ f \in DOMAIN tr_output.content
            /\ tr_output.content[f] = tr_enriched.generated_text.content[f]

\* The response carries the aggregate counts of the text-generation loop:
\* as keys of the returned dict (lines 494-495) or inside the
\* generation_metadata of the enriched presentation (lines 474-475).
ReportsCounts(resp) ==
    /\ \/ resp.type = "EnrichedPresentationStrawman"
       \/ {"successful_slides", "failed_slides"} \subseteq resp.keys
    /\ resp.successful_slides = successful_slides
    /\ resp.failed_slides = failed_slides

\* C21 (as claimed): every successful ContentGeneration result, whether the
\* enriched presentation was rendered, the fallback render of the unenriched
\* strawman was used, or rendering is disabled, reports the aggregate counts of
\* slides whose text generation succeeded and failed.
C21_CountsAlwaysReported ==
    (current_state = "CONTENT_GENERATION" /\ pc = "returned") =>
        ReportsCounts(response)

Min(a, b) == IF a < b THEN a ELSE b

\* list is the first max_items entries of points, in order, each unchanged
\* when it fits max_chars and cut to a prefix within max_chars otherwise.
FirstPointsWithin(list, points, max_items, max_chars) ==
    /\ Len(list) = Min(Len(points), max_items)
    /\ \A i \in 1..Len(list) :
          /\ Len(points[i]) <= max_chars => list[i] = points[i]
          /\ Len(points[i]) > max_chars =>
                /\ IsPrefix(list[i], points[i])
                /\ Len(list[i]) <= max_chars
                /\ list[i] # points[i]

\* C22: with no enriched content, transform_slide for the bullet-list layout
\* L05 yields content.bullets equal to the slide's first max_items key_points
\* in their original order, each unchanged when it is within
\* max_chars_per_item and truncated to that budget otherwise.
C22_BulletsFromKeyPoints ==
    (tr_pc = "done" /\ tr_layout = "L05" /\ ~has_generated(tr_enriched)) =>
        /\ tr_output.layout = "L05"
        /\ "bullets" \in DOMAIN tr_output.content
        /\ FirstPointsWithin(tr_output.content["bullets"], tr_slide.key_points,
                             get_schema("L05").content_schema["bullets"].max_items,
                             get_schema("L05").content_schema["bullets"].max_chars_per_item)

C22_Witness ==
    /\ tr_pc = "done"
    /\ tr_layout = "L05"
    /\ ~tr_enriched.given
    /\ Len(tr_slide.key_points) = 3
    /\ tr_output.content["bullets"] = << <<"P", "1">>, <<"G", "o", ":">> >>

\* 0-based positions of the sentence-ending marks ('. ', '! ' or '? ') within
\* text[:max_chars] that lie at or after 70% of max_chars.
QualifyingEndings(text, max_chars) ==
    {p \in 0..(Len(Take(text, max_chars)) - 2) :
        /\ text[p + 1] \in {".", "!", "?"}
        /\ text[p + 2] = " "
        /\ 10 * p >= 7 * max_chars}

\* C23 (as claimed): when len(text) > max_chars and the first max_chars
\* characters contain a sentence ending ('. ', '! ' or '? ') located at or
\* after 70% of max_chars, truncate returns the text cut immediately after
\* the last such punctuation mark, whichever of the three kinds it is.
C23_CutAfterLastSentenceEnding ==
    (/\ tc_pc = "done"
     /\ Len(tc_text) > tc_max_chars
     /\ QualifyingEndings(tc_text, tc_max_chars) # {}) =>
        tc_result = Take(tc_text, MaxOf(QualifyingEndings(tc_text, tc_max_chars)) + 1)

\* 0-based positions of the whitespace characters within text[:max_chars].
WhitespaceIn(text, max_chars) ==
    {p \in 0..(Len(Take(text, max_chars)) - 1) : text[p + 1] \in {" ", NewLine, Tab}}

\* C24 (as claimed): when len(text) > max_chars and no qualifying sentence
\* ending exists, truncate cuts the text at the last whitespace (space,
\* newline or tab) within the first max_chars characters, and hard-cuts at
\* exactly max_chars characters only when those characters contain no
\* whitespace; the ellipsis, when asked for, follows the cut.
C24_CutAtLastWhitespace ==
    (/\ tc_pc = "done"
     /\ Len(tc_text) > tc_max_chars
     /\ QualifyingEndings(tc_text, tc_max_chars) = {}) =>
        tc_result =
            Take(tc_text, IF WhitespaceIn(tc_text, tc_max_chars) # {}
                          THEN MaxOf(WhitespaceIn(tc_text, tc_max_chars))
                          ELSE tc_max_chars)
              \o (IF tc_add_ellipsis THEN Ellipsis ELSE <<>>)

\* The layouts of the model with a bullet-type list field, and that field.
BulletLayouts == {"L05", "L17", "L20"}

ListField(layout_id) ==
    CASE layout_id = "L17" -> "key_insights"
      [] layout_id = "L06" -> "numbered_items"
      [] OTHER -> "bullets"

\* transform_slide has run for a layout in layouts with a legacy string as
\* generated content.
LegacyDone(layouts) ==
    /\ tr_pc = "done"
    /\ tr_layout \in layouts
    /\ has_generated(tr_enriched)
    /\ tr_enriched.generated_text.kind = "str"

ListSpec == get_schema(tr_layout).content_schema[ListField(tr_layout)]

\* The lines of text, each stripped, without one leading bullet marker and
\* stripped again, that have at least min_len characters, in order.
LinesOfAtLeast(text, min_len) ==
    LET lines == split(text, NewLine)
        cleaned == [i \in 1..Len(lines) |-> unmarked(lines[i])]
    IN SelectSeq(cleaned, LAMBDA line : Len(line) >= min_len)

\* the first max_items of lines, each truncated to max_chars
FirstTruncated(lines, max_items, max_chars) ==
    [i \in 1..Min(Len(lines), max_items) |-> truncate(lines[i], max_chars, FALSE)]

\* the output list is the first max_items lines of at least min_len
\* characters whenever there are two of them
KeepsLinesOfAtLeast(min_len) ==
    LET lines == LinesOfAtLeast(tr_enriched.generated_text.content, min_len)
    IN (LegacyDone(BulletLayouts) /\ Len(lines) >= 2) =>
          tr_output.content[ListField(tr_layout)] =
              FirstTruncated(lines, ListSpec.max_items, ListSpec.max_chars_per_item)

\* C25 (as claimed): in legacy (string) mode for a bullet-type list field,
\* when at least two lines qualify, the output list is exactly the first
\* max_items lines that after whitespace stripping and removal of one leading
\* bullet marker are at least 10 characters long, each truncated to the
\* per-item cap.
C25_KeepsLinesOfTenOrMore == KeepsLinesOfAtLeast(MinLineLength)

\* C25 as the code has it: the lines kept are those longer than 10
\* characters, so a line of exactly 10 characters is dropped like a shorter one.
C25_KeepsLinesLongerThanTen == KeepsLinesOfAtLeast(MinLineLength + 1)

C25_Witness ==
    /\ LegacyDone({"L17"})
    /\ tr_enriched.generated_text.content = TenCharLine
    /\ tr_output.content["key_insights"] =
          << <<"e", "l", "e", "v", "e", "n", "c", "h", "a", "r", "s">>,
             <<"t", "w", "e", "l", "v", "e", " ", "c", "h", "a", "r", "s">> >>

\* C26: when the enriched content is a legacy string and the layout has a
\* bullet-type list field (bullets in L05 or in a generically mapped layout,
\* key_insights in L17), the output list has at most max_items entries and
\* every entry has at most max_chars_per_item characters, for every input
\* string and every key_points list, including when the parse is discarded
\* in favour of key_points.
C26_LegacyListWithinBudget ==
    LegacyDone(BulletLayouts) =>
        LET list == tr_output.content[ListField(tr_layout)]
        IN /\ Len(list) <= ListSpec.max_items
           /\ \A i \in 1..Len(list) : Len(list[i]) <= ListSpec.max_chars_per_item

\* Three lines qualify, two are kept, each cut to the cap.
C26_Witness ==
    /\ LegacyDone({"L05"})
    /\ tr_enriched.generated_text.content = MarkedLines
    /\ tr_output.content["bullets"] = << <<"a", "l", "p">>, <<"b", "r", "a">> >>

\* The stripped non-empty lines of the legacy string, as the numbered-list
\* parser reads them.
NumberedLines ==
    LET lines == split(tr_enriched.generated_text.content, NewLine)
    IN SelectSeq([i \in 1..Len(lines) |-> strip(lines[i])],
                 LAMBDA line : line # <<>>)

\* The items were parsed from the string, not taken from the key points.
NumberedParseKept ==
    /\ LegacyDone({"L06"})
    /\ Min(Len(NumberedLines), ListSpec.max_items) >= 2

ListLayouts == BulletLayouts \cup {"L06"}

\* The number of usable items the legacy parse finds: lines longer than 10
\* characters for a bullet-type field, non-empty lines for numbered_items,
\* at most max_items of them.
UsableItems ==
    Min(ListSpec.max_items,
        IF tr_layout = "L06" THEN Len(NumberedLines)
        ELSE Len(LinesOfAtLeast(tr_enriched.generated_text.content,
                                MinLineLength + 1)))

\* C28: if legacy parsing of a string yields fewer than 2 usable items, the
\* parsed items are discarded and the list field is built from the slide's
\* key_points (the first max_items, in order, truncated), giving exactly the
\* list produced when no enriched content exists; this holds for L05 bullets,
\* L06 numbered_items, L17 key_insights and generic bullets.
C28_FallbackToKeyPoints ==
    (LegacyDone(ListLayouts) /\ UsableItems < 2) =>
        /\ tr_output.content[ListField(tr_layout)] =
              transform_slide(tr_slide, tr_layout, Presentation,
                              NoEnrichedSlide).content[ListField(tr_layout)]
        /\ Len(tr_output.content[ListField(tr_layout)]) =
              Min(Len(tr_slide.key_points), ListSpec.max_items)

\* One line qualifies and the slide has three key points.
C28_Witness ==
    /\ LegacyDone({"L17"})
    /\ tr_enriched.generated_text.content = OneLongLine
    /\ Len(tr_slide.key_points) = 3
    /\ tr_output.content["key_insights"] =
          << <<"P", "1">>, <<"G", "o", ":", "n", "o", "w">> >>

\* The layout of LayoutSelector's steps 1-3 for slide i of sm, and L05 when
\* none of the three applies.
PositionalLayout(sm, i) ==
    LET mandatory == mandatory_layout(sm[i], SlidePosition(i, Len(sm)))
    IN IF mandatory.found THEN mandatory.selection.layout_id ELSE "L05"

\* C29: for a slide without layout_id, the layout that transform_presentation
\* derives is identical to the result of LayoutSelector's steps 1-3 for the
\* same slide index, slide count and slide_type (index 0 -> L01; else last
\* index -> L03; else section_divider -> L02), and is L05 in every other case.
C29_FallbackLayoutAsSelector ==
    \A k \in 1..Len(render_calls) :
        /\ Len(render_calls[k].slides) = Len(strawman)
        /\ \A i \in 1..Len(strawman) :
              strawman[i].layout_id = NoLayout =>
                  render_calls[k].slides[i].layout = PositionalLayout(strawman, i)

C29_Witness ==
    /\ Len(render_calls) = 1
    /\ Len(strawman) = 3
    /\ \A i \in 1..3 : strawman[i].layout_id = NoLayout
    /\ strawman[2].slide_type = "section_divider"
    /\ strawman[3].slide_type = "section_divider"
    /\ [i \in 1..3 |-> render_calls[1].slides[i].layout] = <<"L01", "L02", "L03">>

\* C30 (as claimed): the request that reaches the text-generation service
\* for a slide carries, in its constraints, the max_characters budget
\* computed from the layout's content schema (the sum of max_chars of string
\* fields plus max_items x max_chars_per_item of array fields, or 800 when
\* that sum is 0), together with the tone and the format derived from the
\* schema.
C30_BudgetReachesService ==
    rq_pc = "posted" =>
        LET derived == _build_constraints_from_schema(rq_schema_request.layout_schema)
            sent == rq_service_request.constraints
        IN /\ "max_characters" \in DOMAIN sent
           /\ sent.max_characters = derived.max_characters
           /\ sent.tone = derived.tone
           /\ sent.format = derived.format

\* What does hold: the budget is in the constraints the director builds, and
\* the body posted carries the tone, the format and a word_count of 150.
RequestConstraintsAsBuilt ==
    rq_pc = "posted" =>
        LET derived == _build_constraints_from_schema(rq_schema_request.layout_schema)
        IN /\ rq_v1_request.constraints = derived
           /\ rq_service_request.constraints =
                 [word_count |-> DefaultWordCount, tone |-> derived.tone,
                  format |-> derived.format]


\* ---------------------------------------------------------------------------
\* C31: every stage-bound intent, returned at a stage where the router rubric
\* says it applies, implies a next stage that the transition table allows
\* from that stage: the validation the caller makes succeeds and the target
\* is the stage listed for the intent.
StageBoundIntents ==
    {"Submit_Initial_Topic", "Submit_Clarification_Answers", "Accept_Plan",
     "Reject_Plan", "Submit_Refinement_Request", "Accept_Strawman"}

IntentTable ==
    {<<"Submit_Initial_Topic", "PROVIDE_GREETING", "ASK_CLARIFYING_QUESTIONS">>,
     <<"Submit_Clarification_Answers", "ASK_CLARIFYING_QUESTIONS",
       "CREATE_CONFIRMATION_PLAN">>,
     <<"Accept_Plan", "CREATE_CONFIRMATION_PLAN", "GENERATE_STRAWMAN">>,
     <<"Reject_Plan", "CREATE_CONFIRMATION_PLAN", "CREATE_CONFIRMATION_PLAN">>,
     <<"Submit_Refinement_Request", "GENERATE_STRAWMAN", "REFINE_STRAWMAN">>,
     <<"Submit_Refinement_Request", "REFINE_STRAWMAN", "REFINE_STRAWMAN">>,
     <<"Accept_Strawman", "GENERATE_STRAWMAN", "CONTENT_GENERATION">>,
     <<"Accept_Strawman", "REFINE_STRAWMAN", "CONTENT_GENERATION">>}

C32_TopicChangeNeverRejected ==
    wf_query.intent = "Change_Topic" =>
        /\ wf_query.to = "ASK_CLARIFYING_QUESTIONS"
        /\ wf_query.valid

\* C35: the stages become active in order: REFINE_STRAWMAN and
\* CONTENT_GENERATION only after GENERATE_STRAWMAN has been active,
\* GENERATE_STRAWMAN only after CREATE_CONFIRMATION_PLAN, and
\* CREATE_CONFIRMATION_PLAN only after ASK_CLARIFYING_QUESTIONS.
C35_StagesInOrder ==
    /\ wf_state \in wf_visited
    /\ "REFINE_STRAWMAN" \in wf_visited => "GENERATE_STRAWMAN" \in wf_visited
    /\ "CONTENT_GENERATION" \in wf_visited => "GENERATE_STRAWMAN" \in wf_visited
    /\ "GENERATE_STRAWMAN" \in wf_visited => "CREATE_CONFIRMATION_PLAN" \in wf_visited
    /\ "CREATE_CONFIRMATION_PLAN" \in wf_visited =>
            "ASK_CLARIFYING_QUESTIONS" \in wf_visited
    /\ "PROVIDE_GREETING" \in wf_visited

C35_Witness ==
    /\ wf_state = "CONTENT_GENERATION"
    /\ wf_visited = Stages \ {"REFINE_STRAWMAN"}


\* C33: every payload transform_presentation hands to the rendering service
\* has the strawman's main_title as title and one slide per strawman slide in
\* the same order; slide i carries the layout_id pre-assigned to strawman
\* slide i when one is set and, when enriched data is supplied, the text of
\* enriched slide i, which is the enriched slide of the same slide_id.
C33_PayloadFollowsStrawman ==
    \A k \in 1..Len(render_calls) :
        LET payload == render_calls[k]
        IN /\ payload.title = main_title
           /\ Len(payload.slides) = Len(strawman)
           /\ \A i \in 1..Len(strawman) :
                /\ payload.slides[i].slide_id = strawman[i].slide_id
                /\ strawman[i].layout_id # NoLayout =>
                        payload.slides[i].layout = strawman[i].layout_id
                /\ (payload.with_enriched /\ enriched_slides # <<>>) =>
                        /\ enriched_slides[i].slide_id = strawman[i].slide_id
                        /\ payload.slides[i].generated =
                                enriched_slides[i].generated_text

C33_Witness ==
    /\ Len(render_calls) = 1
    /\ render_calls[1].with_enriched
    /\ render_calls[1].title = "Deck one"
    /\ Len(strawman) = 3
    /\ strawman[2].layout_id = "L05"
    /\ strawman[3].layout_id = NoLayout
    /\ enriched_slides[1].generated_text = GeneratedNone
    /\ enriched_slides[3].generated_text # GeneratedNone
    /\ render_calls[1].slides[3].generated # GeneratedNone


NoDuplicates(seq) == \A i \in 1..Len(seq), j \in 1..Len(seq) : seq[i] = seq[j] => i = j

CountOf(seq, x) == Cardinality({k \in 1..Len(seq) : seq[k] = x})

\* One iteration per slide and no retry: each slide is selected a layout for,
\* sent to the Text Service and enriched at most once, the stage's agent runs
\* at most once, the rendering service is called at most twice (the second
\* call being the placeholder fallback), and a loop that ran to its end has
\* handled every slide.
OneIterationPerSlide ==
    /\ NoDuplicates([k \in 1..Len(selections) |-> selections[k].slide_id])
    /\ NoDuplicates([k \in 1..Len(text_calls) |-> text_calls[k].slide_id])
    /\ NoDuplicates([k \in 1..Len(enriched_slides) |-> enriched_slides[k].slide_id])
    /\ Len(model_calls) - CountOf(model_calls, "layout_selection") <= 1
    /\ CountOf(model_calls, "layout_selection") <= Len(strawman)
    /\ Len(render_calls) <= 2
    /\ GenerateDone => Len(selections) = Len(strawman)
    /\ (current_state = "CONTENT_GENERATION" /\ pc = "returned") =>
            Len(enriched_slides) = Len(strawman)

\* C34: every invocation of process, for any stage and any strawman size,
\* eventually returns a response or raises an error, provided every external
\* call eventually returns or fails; the per-slide loops perform one
\* iteration per slide and nothing is retried.
C34_ProcessTerminates == <>Finished /\ []OneIterationPerSlide

C34_Witness ==
    /\ current_state = "CONTENT_GENERATION"
    /\ pc = "returned"
    /\ Len(strawman) = 3
    /\ Len(text_calls) = 3
    /\ failed_slides = 1
    /\ Len(render_calls) = 2


\* C36: in ContentGeneration, the layout whose content schema a slide's
\* text-generation request was built from is the layout under which
\* transform_presentation afterwards maps that slide's generated content,
\* also for slides whose layout_id is missing.
C36_RequestLayoutIsMappedLayout ==
    \A k \in 1..Len(render_calls), r \in 1..Len(text_calls) :
        render_calls[k].with_enriched =>
            \A i \in 1..Len(render_calls[k].slides) :
                render_calls[k].slides[i].slide_id = text_calls[r].slide_id =>
                    render_calls[k].slides[i].layout = text_calls[r].layout_id


\* C37: for every layout and every slide, transform_slide given an enriched
\* slide whose text generation failed (has_text_failure set, or no
\* generated_text) produces exactly what transform_slide produces given no
\* enriched slide at all.
FailedEnriched(enriched_slide) ==
    /\ enriched_slide.given
    /\ enriched_slide.has_text_failure \/ ~enriched_slide.generated_text.present

C37_FailedSlideAsPlaceholder ==
    (tr_pc = "done" /\ FailedEnriched(tr_enriched)) =>
        tr_output = transform_slide(tr_slide, tr_layout, Presentation, NoEnrichedSlide)

C37_Witness ==
    /\ tr_pc = "done"
    /\ tr_layout = "L05"
    /\ tr_enriched.given
    /\ tr_enriched.has_text_failure
    /\ tr_enriched.generated_text.present
    /\ tr_enriched.generated_text.kind = "dict"
    /\ tr_slide.key_points # <<>>
    /\ tr_output = transform_slide(tr_slide, tr_layout, Presentation, NoEnrichedSlide)


\* C38: for every layout and every slide, the content transform_slide
\* produces when no enriched text exists contains every field the layout's
\* content schema marks as required, so that the required-field check of
\* validate_content passes.
C38_PlaceholderHasRequiredFields ==
    (tr_pc = "done" /\ ~has_generated(tr_enriched)) =>
        missing_required(tr_layout, tr_output.content) = {}


\* C39: for a strawman of exactly one slide, GENERATE_STRAWMAN assigns the
\* slide the title layout L01 (first position before last position), and
\* the payload transform_presentation builds for a single slide without
\* layout_id also carries L01, never L03.
C39_SingleSlideIsTitle ==
    /\ (current_state = "GENERATE_STRAWMAN" /\ Len(strawman) = 1 /\ selections # <<>>) =>
            /\ selections[1].position = "first"
            /\ selections[1].selection.layout_id = "L01"
            /\ strawman[1].layout_id = "L01"
    /\ \A k \in 1..Len(render_calls) :
            (Len(strawman) = 1 /\ strawman[1].layout_id \in {NoLayout, "L01"}) =>
                /\ Len(render_calls[k].slides) = 1
                /\ render_calls[k].slides[1].layout = "L01"

C39_Witness ==
    /\ GenerateDone
    /\ Len(strawman) = 1
    /\ strawman[1].slide_type = "section_divider"
    /\ selections[1].position = "first"
    /\ strawman[1].layout_id = "L01"
    /\ render_calls # <<>>
    /\ render_calls[1].slides[1].layout = "L01"

\* C40: a ContentGeneration response with content_generated = true implies
\* that the text of at least one slide was generated: when text generation
\* failed for every slide, or the Text Service is disabled and no
\* text-generation call is made, content_generated = true is not reported.
C40_ContentGeneratedMeansText ==
    (/\ current_state = "CONTENT_GENERATION"
     /\ pc = "returned"
     /\ "content_generated" \in response.keys
     /\ response.content_generated) =>
        /\ response.successful_slides >= 1
        /\ successful_slides >= 1
        /\ text_calls # <<>>

============================================================================
